---- MODULE Spec2Model ----
(***************************************************************************)
(* A model of the PLU editor (xaurey/plu-editor): the session state of     *)
(* state.js, the title tree of tree.js, the content editor of editor.js,   *)
(* the metadata form of metadata.js, the undo/redo stacks of history.js    *)
(* and the content splitter of converters.js.                              *)
(*                                                                         *)
(* JavaScript objects are modelled with their identity where the code      *)
(* depends on it: the Titre objects of the live document live in a heap    *)
(* (titres) indexed by object ids, arrays of Titre are sequences of ids,   *)
(* and a JSON deep copy is a copy of the reachable part of the heap.       *)
(* Strings that the code inspects are sequences of one-character strings.  *)
(***************************************************************************)
EXTENDS Integers, Sequences, FiniteSets, TLC

VARIABLES
    pluData,        \* state.pluData: Null or the document record
    titres,         \* the Titre objects reachable from state.pluData
    currentTitre,   \* state.currentTitre: a reference to a Titre object
    currentContenu, \* state.currentContenu: a reference to a Contenu object
    flatTitles,     \* state.flatTitles
    editor,         \* state.editor is set
    isEditing,      \* state.isEditing
    editorScreen,   \* the editor screen (title form, content list) is shown
    undoStack,      \* history.js undoStack
    redoStack,      \* history.js redoStack
    isRestoring,    \* history.js isRestoring
    toast,          \* the type of the last toast: "none", "success", "error"
    tiptapDoc,      \* the argument of splitTipTapBySeparator
    docParts,       \* its result
    splitDone,      \* splitTipTapBySeparator has returned
    htmlArray,      \* the result of tiptapToHtmlArray(tiptapDoc)
    backDoc,        \* the result of htmlArrayToTipTap(htmlArray)
    convStep,       \* "doc", then "html", then "tiptap": the results at hand
    localStorage,   \* the images of window.localStorage: key and value
    refs            \* which object each pluData reference points to

editorVars == <<pluData, titres, currentTitre, currentContenu, flatTitles,
                editor, isEditing, editorScreen, undoStack, redoStack,
                isRestoring, toast>>
splitVars == <<tiptapDoc, docParts, splitDone, htmlArray, backDoc, convStep,
               localStorage, refs>>
vars == <<pluData, titres, currentTitre, currentContenu, flatTitles,
          editor, isEditing, editorScreen, undoStack, redoStack,
          isRestoring, toast, tiptapDoc, docParts, splitDone, htmlArray,
          backDoc, convStep, localStorage, refs>>

Null == <<>>

(***************************************************************************)
(* Bounds                                                                  *)
(***************************************************************************)
MaxBlocks == 3   \* top-level blocks of a split document
MaxNodes == 3    \* Titre objects of the live document
MaxContenu == 3  \* Contenu entries of one Titre
MaxUndo == 1     \* snapshots kept while exploring
MaxStored == 2   \* images localStorage has room for
MaxSnapshots == 3  \* snapshots of both stacks while their objects are tracked

(***************************************************************************)
(* Program constants                                                       *)
(***************************************************************************)
MAX_HISTORY_SIZE == 50
SlugMax == 20

(***************************************************************************)
(* Sequences and strings                                                   *)
(***************************************************************************)
RECURSIVE Flatten(_)
Flatten(ss) == IF ss = <<>> THEN <<>> ELSE Head(ss) \o Flatten(Tail(ss))

Last(s) == s[Len(s)]
Front(s) == SubSeq(s, 1, Len(s) - 1)

Str3 == <<"*", "*", "*">>

IsSpace(c) == c = " "

RECURSIVE TrimStart(_)
TrimStart(s) ==
    IF s # <<>> /\ IsSpace(Head(s)) THEN TrimStart(Tail(s)) ELSE s

RECURSIVE TrimEnd(_)
TrimEnd(s) ==
    IF s # <<>> /\ IsSpace(Last(s)) THEN TrimEnd(Front(s)) ELSE s

Trim(s) == TrimEnd(TrimStart(s))

(***************************************************************************)
(* Rich documents (TipTap JSON)                                            *)
(***************************************************************************)
Text(s) == [type |-> "text", text |-> s]
Bold(s) == [type |-> "text", text |-> s, marks |-> <<[type |-> "bold"]>>]
P(inl) == [type |-> "paragraph", content |-> inl]
EmptyP == [type |-> "paragraph"]
Doc(blocks) == [type |-> "doc", content |-> blocks]

HasContent(node) == "content" \in DOMAIN node

\* node.content[0] is a text node holding *** once trimmed
IsSeparatorNoTrim(node) ==
    /\ node.type = "paragraph"
    /\ HasContent(node)
    /\ Len(node.content) = 1
    /\ node.content[1].type = "text"
    /\ node.content[1].text # <<>>
    /\ node.content[1].text = Str3

IsSeparator(node) ==
    /\ node.type = "paragraph"
    /\ HasContent(node)
    /\ Len(node.content) = 1
    /\ node.content[1].type = "text"
    /\ node.content[1].text # <<>>
    /\ Trim(node.content[1].text) = Str3

\* the loop of splitTipTapBySeparator: parts and currentPart after the
\* blocks of content
RECURSIVE SplitLoop(_, _, _)
SplitLoop(content, parts, currentPart) ==
    IF content = <<>> THEN [parts |-> parts, currentPart |-> currentPart]
    ELSE IF IsSeparator(Head(content))
         THEN SplitLoop(Tail(content),
                        IF Len(currentPart.content) > 0
                        THEN Append(parts, currentPart) ELSE parts,
                        Doc(<<>>))
         ELSE SplitLoop(Tail(content), parts,
                        Doc(Append(currentPart.content, Head(content))))

\* splitTipTapBySeparator without the return of the whole document
splitNoFallback(doc) ==
    IF doc = Null \/ ~HasContent(doc) THEN <<doc>>
    ELSE LET r == SplitLoop(doc.content, <<>>, Doc(<<>>))
         IN  IF Len(r.currentPart.content) > 0
             THEN Append(r.parts, r.currentPart) ELSE r.parts

splitTipTapBySeparator(doc) ==
    IF doc = Null \/ ~HasContent(doc) THEN <<doc>>
    ELSE LET r == SplitLoop(doc.content, <<>>, Doc(<<>>))
             parts == IF Len(r.currentPart.content) > 0
                      THEN Append(r.parts, r.currentPart) ELSE r.parts
         IN  IF Len(parts) = 0 THEN <<doc>> ELSE parts

(***************************************************************************)
(* Rich document to structured HTML (converters.js)                        *)
(* An HtmlNode is [str |-> s] for a plain string, or a record with a tag   *)
(* and, when present, text, children and attrs.                            *)
(***************************************************************************)
HasMarks(node) == "marks" \in DOMAIN node /\ Len(node.marks) > 0
NodeText(node) == IF "text" \in DOMAIN node THEN node.text ELSE <<>>

MarkTag(mark) ==
    CASE mark.type = "bold" -> "strong"
      [] mark.type = "italic" -> "em"
      [] mark.type = "underline" -> "span"
      [] mark.type = "link" -> "a"
      [] OTHER -> "none"

\* one turn of the loop over node.marks (from the last mark to the first)
WrapMark(currentNode, mark) ==
    LET tag == MarkTag(mark)
        base == [tag |-> tag]
        withAttrs ==
            IF tag = "span"
            THEN base @@ [attrs |-> [style |-> "text-decoration: underline"]]
            ELSE IF tag = "a"
            THEN base @@ [attrs |-> [href |-> IF "attrs" \in DOMAIN mark
                                               THEN mark.attrs.href ELSE <<>>]]
            ELSE base
    IN  IF tag = "none" THEN currentNode
        ELSE IF "text" \in DOMAIN currentNode
        THEN withAttrs @@ [text |-> currentNode.text]
        ELSE withAttrs @@ [children |-> <<currentNode>>]

RECURSIVE WrapMarks(_, _, _)
WrapMarks(currentNode, marks, i) ==
    IF i = 0 THEN currentNode
    ELSE WrapMarks(WrapMark(currentNode, marks[i]), marks, i - 1)

HasFormatting(content) ==
    \E i \in 1..Len(content) :
        \/ content[i].type = "text" /\ HasMarks(content[i])
        \/ content[i].type = "hardBreak"

RECURSIVE InlineNodes(_)
InlineNodes(content) ==
    IF content = <<>> THEN <<>>
    ELSE LET node == Head(content)
             rest == InlineNodes(Tail(content))
         IN  IF node.type = "text"
             THEN IF HasMarks(node)
                  THEN <<WrapMarks([text |-> NodeText(node)], node.marks,
                                   Len(node.marks))>> \o rest
                  ELSE <<[str |-> NodeText(node)]>> \o rest
             ELSE IF node.type = "hardBreak"
             THEN <<[tag |-> "br"]>> \o rest
             ELSE rest

\* a string result is [string |-> s], an array result is [array |-> a]
convertInlineContent(content) ==
    IF content = <<>> THEN [string |-> <<>>]
    ELSE IF ~HasFormatting(content)
    THEN [string |-> Flatten([i \in 1..Len(content) |-> NodeText(content[i])])]
    ELSE [array |-> InlineNodes(content)]

InlineTo(tag, content) ==
    LET c == convertInlineContent(content)
    IN  IF "string" \in DOMAIN c THEN [tag |-> tag, text |-> c.string]
        ELSE [tag |-> tag, children |-> c.array]

convertParagraph(node) ==
    IF ~HasContent(node) \/ Len(node.content) = 0
    THEN [tag |-> "p", text |-> <<>>]
    ELSE InlineTo("p", node.content)

HTag(level) ==
    CASE level = 1 -> "h1" [] level = 2 -> "h2" [] level = 3 -> "h3"
      [] level = 4 -> "h4" [] level = 5 -> "h5" [] OTHER -> "h6"

convertHeading(node) ==
    LET level == IF "attrs" \in DOMAIN node THEN node.attrs.level ELSE 1
    IN  InlineTo(HTag(level),
                 IF HasContent(node) THEN node.content ELSE <<>>)

\* Null is the null result, which the callers filter out; image, table,
\* tableRow and the table cells are not among the documents of this model
RECURSIVE convertTipTapNode(_)

\* node.content.map(convertTipTapNode).filter(n => n)
convertChildren(content) ==
    SelectSeq([i \in 1..Len(content) |-> convertTipTapNode(content[i])],
              LAMBDA n : n # Null)

convertList(node, tag) ==
    IF ~HasContent(node) THEN Null
    ELSE LET children == convertChildren(node.content)
         IN  IF Len(children) = 0 THEN Null
             ELSE [tag |-> tag, children |-> children]

convertListItem(node) ==
    IF ~HasContent(node) THEN [tag |-> "li", text |-> <<>>]
    ELSE IF Len(node.content) = 1 /\ node.content[1].type = "paragraph"
    THEN InlineTo("li", IF HasContent(node.content[1])
                        THEN node.content[1].content ELSE <<>>)
    ELSE [tag |-> "li", children |-> convertChildren(node.content)]

\* the default of the switch: a div around the converted children, null
\* when there is none
convertUnknown(node) ==
    IF ~HasContent(node) THEN Null
    ELSE LET children == convertChildren(node.content)
         IN  IF Len(children) > 0 THEN [tag |-> "div", children |-> children]
             ELSE Null

convertTipTapNode(node) ==
    IF node = Null THEN Null
    ELSE IF "type" \notin DOMAIN node THEN Null
    ELSE CASE node.type = "paragraph" -> convertParagraph(node)
           [] node.type = "heading" -> convertHeading(node)
           [] node.type = "bulletList" -> convertList(node, "ul")
           [] node.type = "orderedList" -> convertList(node, "ol")
           [] node.type = "listItem" -> convertListItem(node)
           [] node.type = "hardBreak" -> [tag |-> "br"]
           [] node.type = "text" ->
                IF NodeText(node) = <<>> THEN Null
                ELSE [str |-> NodeText(node)]
           [] OTHER -> convertUnknown(node)

\* The outcome of a call is [value |-> v] when it returns v and
\* [thrown |-> e] when it raises e.
Returned(v) == [value |-> v]
Thrown(e) == [thrown |-> e]
Returns(outcome) == "value" \in DOMAIN outcome

\* convertInlineContent reads node.type of every inline node: a null one
\* raises a TypeError
InlineThrows(content) == \E i \in 1..Len(content) : content[i] = Null

NodeThrows(node) ==
    /\ node # Null
    /\ "type" \in DOMAIN node
    /\ node.type \in {"paragraph", "heading"}
    /\ HasContent(node)
    /\ InlineThrows(node.content)

\* the statements inside the try of tiptapToHtmlArray
tiptapToHtmlArrayBody(doc) ==
    IF doc = Null THEN Returned(<<>>)
    ELSE IF ~HasContent(doc) THEN Returned(<<>>)
    ELSE IF \E i \in 1..Len(doc.content) : NodeThrows(doc.content[i])
    THEN Thrown("TypeError")
    ELSE Returned(SelectSeq([i \in 1..Len(doc.content) |->
                                convertTipTapNode(doc.content[i])],
                            LAMBDA n : n # Null))

\* the outcome of tiptapToHtmlArray(doc): the catch returns []
tiptapToHtmlArrayCall(doc) ==
    LET outcome == tiptapToHtmlArrayBody(doc)
    IN  IF Returns(outcome) THEN outcome ELSE Returned(<<>>)

tiptapToHtmlArray(doc) == tiptapToHtmlArrayCall(doc).value

\* parseInlineHtml of a text without markup: one text node, none for ''
parseInlineHtml(htmlString) ==
    IF htmlString = <<>> THEN <<>> ELSE <<Text(htmlString)>>

HeadingTags == {"h1", "h2", "h3", "h4", "h5", "h6"}

\* parseInt(element.tag.substring(1))
LevelOf(tag) == CHOOSE level \in 1..6 : HTag(level) = tag

convertHtmlHeading(element) ==
    [type |-> "heading",
     attrs |-> [level |-> LevelOf(element.tag)],
     content |-> <<Text(IF "text" \in DOMAIN element THEN element.text
                        ELSE <<>>)>>]

\* An element of the html array is [str |-> s] for a string and a record
\* with a tag otherwise.  The tags are those convertTipTapNode gives here;
\* strong, em, span and a fall to the default of the switch, as any other.
RECURSIVE convertHtmlToTipTap(_)
\* the children of a paragraph, none of them an image
RECURSIVE ParagraphChildren(_)
ParagraphChildren(children) ==
    IF children = <<>> THEN <<>>
    ELSE LET child == Head(children)
             rest == ParagraphChildren(Tail(children))
         IN  IF "str" \in DOMAIN child THEN <<Text(child.str)>> \o rest
             ELSE IF child.tag = "br" THEN <<[type |-> "hardBreak"]>> \o rest
             ELSE LET converted == convertHtmlToTipTap(child)
                  IN  IF converted # Null THEN <<converted>> \o rest
                      ELSE rest

convertHtmlParagraph(element) ==
    IF "text" \in DOMAIN element /\ element.text # <<>>
    THEN [type |-> "paragraph", content |-> parseInlineHtml(element.text)]
    ELSE IF "children" \in DOMAIN element
    THEN [type |-> "paragraph",
          content |-> ParagraphChildren(element.children)]
    ELSE [type |-> "paragraph", content |-> <<>>]

convertHtmlToTipTap(element) ==
    IF "str" \in DOMAIN element THEN P(<<Text(element.str)>>)
    ELSE IF "tag" \notin DOMAIN element THEN Null
    ELSE IF element.tag = "p" THEN convertHtmlParagraph(element)
    ELSE IF element.tag \in HeadingTags THEN convertHtmlHeading(element)
    ELSE IF element.tag = "br" THEN [type |-> "hardBreak"]
    ELSE Null

\* convertHtmlToTipTap reads element.tag of anything that is not a string,
\* convertHtmlParagraph child.tag of every child that is not a string: a
\* null one raises a TypeError
RECURSIVE HtmlThrows(_)
HtmlThrows(element) ==
    IF element = Null THEN TRUE
    ELSE IF "str" \in DOMAIN element THEN FALSE
    ELSE IF "tag" \notin DOMAIN element THEN FALSE
    ELSE IF element.tag # "p" THEN FALSE
    ELSE IF "text" \in DOMAIN element /\ element.text # <<>> THEN FALSE
    ELSE IF "children" \notin DOMAIN element THEN FALSE
    ELSE \E i \in 1..Len(element.children) :
            LET child == element.children[i]
            IN  IF child = Null THEN TRUE
                ELSE IF "str" \in DOMAIN child THEN FALSE
                ELSE IF child.tag = "br" THEN FALSE
                ELSE HtmlThrows(child)

\* A value handed to htmlArrayToTipTap: null, an array or another object
JsNull == [kind |-> "null"]
JsArray(items) == [kind |-> "array", items |-> items]
JsObject(fields) == [kind |-> "object", fields |-> fields]

\* the statements inside the try of htmlArrayToTipTap
htmlArrayToTipTapBody(value) ==
    IF value.kind # "array" THEN Returned(Doc(<<>>))
    ELSE IF \E i \in 1..Len(value.items) : HtmlThrows(value.items[i])
    THEN Thrown("TypeError")
    ELSE Returned(Doc(SelectSeq([i \in 1..Len(value.items) |->
                                    convertHtmlToTipTap(value.items[i])],
                                LAMBDA n : n # Null)))

\* htmlArrayToTipTap without its try and catch
htmlArrayToTipTapNoCatch(value) == htmlArrayToTipTapBody(value)

\* the outcome of htmlArrayToTipTap(value): the catch returns an empty
\* document
htmlArrayToTipTapCall(value) ==
    LET outcome == htmlArrayToTipTapBody(value)
    IN  IF Returns(outcome) THEN outcome ELSE Returned(Doc(<<>>))

\* the callers of this model hand over an array, [] for a missing one
htmlArrayToTipTap(array) == htmlArrayToTipTapCall(JsArray(array)).value

(***************************************************************************)
(* Identifiers.  An id is the sequence of its /-separated segments, each   *)
(* segment a string (a sequence of string pieces): idReglement is          *)
(* <<idUrba, "reglement">>, an idTitre adds one segment slug_n per level,  *)
(* an idContenu ends with the segment contenuNN.                           *)
(***************************************************************************)
IdUrba(code, typeDoc, date) == code \o <<"_", typeDoc, "_">> \o date
IdReglementOf(idUrba) == <<idUrba, <<"reglement">>>>

Digit(d) ==
    CASE d = 0 -> "0" [] d = 1 -> "1" [] d = 2 -> "2" [] d = 3 -> "3"
      [] d = 4 -> "4" [] d = 5 -> "5" [] d = 6 -> "6" [] d = 7 -> "7"
      [] d = 8 -> "8" [] OTHER -> "9"

RECURSIVE Decimal(_)
Decimal(n) ==
    IF n < 10 THEN <<Digit(n)>>
    ELSE Append(Decimal(n \div 10), Digit(n % 10))

\* String(n).padStart(2, '0')
Pad2(n) == IF n < 10 THEN <<"0", Digit(n)>> ELSE Decimal(n)

\* `${parentIdReglement}/${idSuffix}_${titleCount}`
TitreId(parentId, idSuffix, titleCount) ==
    Append(parentId, idSuffix \o <<"_">> \o Decimal(titleCount))

ContenuId(baseId, n) == Append(baseId, <<"contenu">> \o Pad2(n))

\* `${state.pluData.idReglement}/${idTitre.split('/').pop()}`
ContenuBase(idReglement, idTitre) ==
    Append(idReglement, IF idTitre = <<>> THEN <<>> ELSE Last(idTitre))

IsPrefix(p, s) == Len(p) <= Len(s) /\ SubSeq(s, 1, Len(p)) = p

\* id.startsWith(old) ? id.replace(old, new) : id
ReplacePrefix(id, old, new) ==
    IF IsPrefix(old, id) THEN new \o SubSeq(id, Len(old) + 1, Len(id))
    ELSE id

LowerCase(c) ==
    CASE c = "A" -> "a" [] c = "Z" -> "z" [] c = "U" -> "u"
      [] c = "É" -> "é" [] c = "U+2160" -> "U+2170" [] OTHER -> c

\* normalize('NFD') followed by the removal of the combining marks
StripAccent(c) == CASE c = "é" -> "e" [] c = "à" -> "a" [] OTHER -> c

IsAlnum(c) ==
    c \in {"a", "b", "c", "d", "e", "f", "g", "h", "i", "j", "k", "l", "m",
           "n", "o", "p", "q", "r", "s", "t", "u", "v", "w", "x", "y", "z",
           "0", "1", "2", "3", "4", "5", "6", "7", "8", "9"}

SlugChar(c) ==
    LET d == StripAccent(LowerCase(c)) IN IF IsAlnum(d) THEN d ELSE "_"

Slug(intitule) ==
    LET all == [i \in 1..Len(intitule) |-> SlugChar(intitule[i])]
    IN  SubSeq(all, 1, IF Len(all) < SlugMax THEN Len(all) ELSE SlugMax)

(***************************************************************************)
(* The heap of Titre objects                                               *)
(***************************************************************************)
ObjIds == 1..(MaxNodes + 1)

\* the array that holder owns: pluData.titre for 0, else a Titre's titre
Arr(s, holder) ==
    IF holder = 0 THEN s.pluData.titre ELSE s.titres[holder].titre

SetArr(s, holder, arr) ==
    IF holder = 0 THEN [s EXCEPT !.pluData.titre = arr]
    ELSE [s EXCEPT !.titres[holder].titre = arr]

RemoveAt(arr, i) ==
    SubSeq(arr, 1, i - 1) \o SubSeq(arr, i + 1, Len(arr))

\* arr.splice(pos - 1, 0, x) for a 1-based position pos
InsertAt(arr, pos, x) ==
    LET q == IF pos > Len(arr) + 1 THEN Len(arr) + 1 ELSE pos
    IN  SubSeq(arr, 1, q - 1) \o <<x>> \o SubSeq(arr, q, Len(arr))

RECURSIVE flattenTitres(_, _, _)
\* flattenTitres pushing the entry of a titre after those of its children
flattenChildrenFirst(heap, ids, parentPath) ==
    Flatten([i \in 1..Len(ids) |->
        LET path == Append(parentPath, i - 1)
        IN  flattenTitres(heap, heap[ids[i]].titre, path)
            \o <<[titre |-> ids[i], path |-> path]>>])

flattenTitres(heap, ids, parentPath) ==
    Flatten([i \in 1..Len(ids) |->
        LET path == Append(parentPath, i - 1)
        IN  <<[titre |-> ids[i], path |-> path]>>
            \o flattenTitres(heap, heap[ids[i]].titre, path)])

RootIds(s) == IF s.pluData = Null THEN <<>> ELSE s.pluData.titre

FlatOf(s) == flattenTitres(s.titres, RootIds(s), <<>>)

Reach(s) == LET flat == FlatOf(s) IN {flat[i].titre : i \in 1..Len(flat)}

\* JSON.parse(JSON.stringify(state.pluData))
DeepCopy(s) ==
    [pluData |-> s.pluData,
     titres |-> [i \in Reach(s) |-> s.titres[i]]]

\* A Titre object that left the live document stays alive through
\* state.currentTitre.  Writes through the reference change that object
\* only, and the session reads back from it nothing but the length of its
\* content list (the items of the content list on screen): the object is
\* kept as that length.
Blank == [idTitre |-> <<>>, intitule |-> <<>>, niveau |-> 1, numero |-> <<>>,
          idZone |-> <<>>, idPrescription |-> <<>>, inseeCommune |-> <<>>,
          titre |-> <<>>]
BlankContenu == [idContenu |-> <<>>, idZone |-> <<>>, idPrescription |-> <<>>,
                 html |-> <<>>]
Detached(obj) ==
    [kind |-> "detached",
     obj |-> Blank @@ [contenu |-> [i \in 1..Len(obj.contenu) |-> BlankContenu]]]

\* objects that nothing reaches any more are dropped from the heap
Collect(s) ==
    LET live == Reach(s)
        cur == s.currentTitre
    IN  [s EXCEPT
            !.titres = [i \in live |-> s.titres[i]],
            !.currentTitre =
                IF cur.kind = "live" /\ cur.id \notin live
                THEN Detached(s.titres[cur.id])
                ELSE IF cur.kind = "detached" THEN Detached(cur.obj)
                ELSE cur]

\* every object of the document is replaced (setPluData of a copy)
Detach(s) ==
    LET cur == s.currentTitre
    IN  IF cur.kind = "live"
        THEN [s EXCEPT !.currentTitre = Detached(s.titres[cur.id])]
        ELSE s

\* the messages the code shows with type 'error'
ErrorToasts ==
    {"Veuillez sauvegarder ou annuler avant de reorganiser",
     "Erreur lors du deplacement", "L'intitule est requis", "Aucun PLU charge",
     "Index de titre invalide",
     "Erreur: structure de titre invalide", "Le nom du reglement est requis",
     "La date doit etre au format AAAAMMJJ",
     "Au moins un code INSEE est requis", "Code INSEE invalide",
     "Pour un PLUi, le code SIREN est requis",
     "Erreur lors de chargement du fichier JSON",
     "Erreur lors de importation du DOCX",
     "Erreur lors de exportation du PLU",
     "Rien a annuler", "Rien a retablir", "Erreur lors de l'annulation",
     "Erreur lors du retablissement", "Selectionnez d'abord un titre",
     "Aucun titre selectionne", "Contenu introuvable",
     "L'editeur n'est pas initialise",
     "Au moins une commune doit etre selectionnee", "Le contenu est vide"}

\* showToast(message, type = 'success'): the toast element takes the type
Toast(s, msg) ==
    [s EXCEPT !.toast = IF msg \in ErrorToasts THEN "error" ELSE "success"]

renderTree(s) ==
    IF s.pluData = Null \/ Len(s.pluData.titre) = 0 THEN s
    ELSE [s EXCEPT !.flatTitles = FlatOf(s)]

(***************************************************************************)
(* history.js.  A snapshot is the deep copy of the document; its label and  *)
(* its timestamp, which nothing reads back into the document, are left out.*)
(***************************************************************************)
Push(stack, snapshot) == Append(stack, snapshot)

\* captureState without the reset of the redo stack
captureStateKeepRedo(s, actionName) ==
    IF s.isRestoring THEN s
    ELSE IF s.pluData = Null THEN s
    ELSE LET pushed == Push(s.undoStack, DeepCopy(s))
         IN  [s EXCEPT
                !.undoStack = IF Len(pushed) > MAX_HISTORY_SIZE
                              THEN Tail(pushed) ELSE pushed]

\* captureState without the limit on the size of the undo stack
captureStateNoLimit(s, actionName) ==
    IF s.isRestoring THEN s
    ELSE IF s.pluData = Null THEN s
    ELSE [s EXCEPT !.undoStack = Push(s.undoStack, DeepCopy(s)),
                   !.redoStack = <<>>]

captureState(s, actionName) ==
    IF s.isRestoring THEN s
    ELSE IF s.pluData = Null THEN s
    ELSE LET pushed == Push(s.undoStack, DeepCopy(s))
         IN  [s EXCEPT
                !.undoStack = IF Len(pushed) > MAX_HISTORY_SIZE
                              THEN Tail(pushed) ELSE pushed,
                !.redoStack = <<>>]

Install(s, snapshot) ==
    [Detach(s) EXCEPT !.pluData = snapshot.pluData,
                      !.titres = snapshot.titres]

\* undo without the push of the live document on the redo stack
undoNoRedo(s) ==
    IF Len(s.undoStack) = 0 THEN Toast(s, "Rien a annuler")
    ELSE LET previousSnapshot == Last(s.undoStack)
             saved == [s EXCEPT !.undoStack = Front(s.undoStack)]
         IN  Toast(renderTree(Install(saved, previousSnapshot)), "Annule")

\* undo that takes the oldest snapshot of the undo stack
undoOldest(s) ==
    IF Len(s.undoStack) = 0 THEN Toast(s, "Rien a annuler")
    ELSE LET previousSnapshot == Head(s.undoStack)
             saved == [s EXCEPT
                 !.redoStack = Push(s.redoStack, DeepCopy(s)),
                 !.undoStack = Tail(s.undoStack)]
         IN  Toast(renderTree(Install(saved, previousSnapshot)), "Annule")

\* The statements of the try of undo, run with isRestoring set.  fault is
\* the place where the try raises: "copy" for the JSON copy of the live
\* document, "render" for renderTree, "none" when it runs to its end.
Faults == {"none", "copy", "render"}

undoTry(s, fault) ==
    LET restoring == [s EXCEPT !.isRestoring = TRUE]
        previousSnapshot == Last(s.undoStack)
        saved == [restoring EXCEPT
                     !.redoStack = Push(s.redoStack, DeepCopy(s)),
                     !.undoStack = Front(s.undoStack)]
        installed == Install(saved, previousSnapshot)
    IN  CASE fault = "copy" -> [thrown |-> TRUE, s |-> restoring]
          [] fault = "render" -> [thrown |-> TRUE, s |-> installed]
          [] OTHER -> [thrown |-> FALSE,
                       s |-> Toast(renderTree(installed), "Annule")]

\* undo whose isRestoring = false is the last statement of the try
undoCallNoFinally(s, fault) ==
    IF Len(s.undoStack) = 0 THEN Toast(s, "Rien a annuler")
    ELSE LET outcome == undoTry(s, fault)
         IN  IF outcome.thrown
             THEN Toast(outcome.s, "Erreur lors de l'annulation")
             ELSE [outcome.s EXCEPT !.isRestoring = FALSE]

\* undo: the rejection of an empty stack, then try, catch and finally
undoCall(s, fault) ==
    IF Len(s.undoStack) = 0 THEN Toast(s, "Rien a annuler")
    ELSE LET outcome == undoTry(s, fault)
             caught == IF outcome.thrown
                       THEN Toast(outcome.s, "Erreur lors de l'annulation")
                       ELSE outcome.s
         IN  [caught EXCEPT !.isRestoring = FALSE]

undo(s) == undoCall(s, "none")

redoTry(s, fault) ==
    LET restoring == [s EXCEPT !.isRestoring = TRUE]
        nextSnapshot == Last(s.redoStack)
        saved == [restoring EXCEPT
                     !.undoStack = Push(s.undoStack, DeepCopy(s)),
                     !.redoStack = Front(s.redoStack)]
        installed == Install(saved, nextSnapshot)
    IN  CASE fault = "copy" -> [thrown |-> TRUE, s |-> restoring]
          [] fault = "render" -> [thrown |-> TRUE, s |-> installed]
          [] OTHER -> [thrown |-> FALSE,
                       s |-> Toast(renderTree(installed), "Retabli")]

redoCall(s, fault) ==
    IF Len(s.redoStack) = 0 THEN Toast(s, "Rien a retablir")
    ELSE LET outcome == redoTry(s, fault)
             caught == IF outcome.thrown
                       THEN Toast(outcome.s, "Erreur lors du retablissement")
                       ELSE outcome.s
         IN  [caught EXCEPT !.isRestoring = FALSE]

redo(s) == redoCall(s, "none")

clearHistory(s) == [s EXCEPT !.undoStack = <<>>, !.redoStack = <<>>]

(***************************************************************************)
(* state.js                                                                *)
(***************************************************************************)
NoTitre == [kind |-> "null"]
NoContenu == [kind |-> "null"]

HasTitre(s) == s.currentTitre.kind # "null"

\* the object state.currentTitre refers to
CurObj(s) ==
    IF s.currentTitre.kind = "live" THEN s.titres[s.currentTitre.id]
    ELSE s.currentTitre.obj

\* an assignment through state.currentTitre
SetCurObj(s, obj) ==
    IF s.currentTitre.kind = "live"
    THEN [s EXCEPT !.titres[s.currentTitre.id] = obj]
    ELSE [s EXCEPT !.currentTitre.obj = obj]

\* state.currentTitre = state.flatTitles[index]?.titre || null
setCurrentTitre(s, index) ==
    [s EXCEPT !.currentTitre =
        IF index + 1 \in 1..Len(s.flatTitles)
        THEN [kind |-> "live", id |-> s.flatTitles[index + 1].titre]
        ELSE NoTitre]

setCurrentContenu(s, ref) == [s EXCEPT !.currentContenu = ref]

(***************************************************************************)
(* tree.js                                                                 *)
(***************************************************************************)
\* the holder of the array a path ends in: the loops of moveTitre and
\* deleteTitre over the parent path
RECURSIVE Walk(_, _, _)
Walk(s, holder, parentPath) ==
    IF parentPath = <<>> THEN holder
    ELSE Walk(s, Arr(s, holder)[Head(parentPath) + 1], Tail(parentPath))

\* the parent path leads through existing entries: the test of the loop
\* of deleteTitre
RECURSIVE WalkOk(_, _, _)
WalkOk(s, holder, parentPath) ==
    IF parentPath = <<>> THEN TRUE
    ELSE /\ Head(parentPath) + 1 \in 1..Len(Arr(s, holder))
         /\ WalkOk(s, Arr(s, holder)[Head(parentPath) + 1], Tail(parentPath))

\* moveTitre without the adjustment of the target index
moveTitreNoAdjust(s, fromIndex, toIndex) ==
    IF fromIndex = toIndex THEN s
    ELSE
    LET c == captureState(s, "Deplacement de titre")
    IN
    IF fromIndex + 1 \notin 1..Len(c.flatTitles)
       \/ toIndex + 1 \notin 1..Len(c.flatTitles)
    THEN Toast(c, "Erreur lors du deplacement")
    ELSE
    LET draggedItem == c.flatTitles[fromIndex + 1]
        targetItem == c.flatTitles[toIndex + 1]
        draggedIndexInParent == Last(draggedItem.path)
        targetIndexInParent == Last(targetItem.path)
        dp == Walk(c, 0, Front(draggedItem.path))
        tp == Walk(c, 0, Front(targetItem.path))
        movedTitre == Arr(c, dp)[draggedIndexInParent + 1]
        removed == SetArr(c, dp, RemoveAt(Arr(c, dp), draggedIndexInParent + 1))
        inserted == SetArr(removed, tp,
                        InsertAt(Arr(removed, tp), targetIndexInParent + 2,
                                 movedTitre))
    IN  Toast(renderTree(inserted), "Titre deplace avec succes")

\* moveTitre without the removal of the moved titre when it stays in its
\* array
moveTitreKeepSource(s, fromIndex, toIndex) ==
    IF fromIndex = toIndex THEN s
    ELSE
    LET c == captureState(s, "Deplacement de titre")
    IN
    IF fromIndex + 1 \notin 1..Len(c.flatTitles)
       \/ toIndex + 1 \notin 1..Len(c.flatTitles)
    THEN Toast(c, "Erreur lors du deplacement")
    ELSE
    LET draggedItem == c.flatTitles[fromIndex + 1]
        targetItem == c.flatTitles[toIndex + 1]
        draggedIndexInParent == Last(draggedItem.path)
        targetIndexInParent == Last(targetItem.path)
        dp == Walk(c, 0, Front(draggedItem.path))
        tp == Walk(c, 0, Front(targetItem.path))
        movedTitre == Arr(c, dp)[draggedIndexInParent + 1]
        removed ==
            IF dp = tp THEN c
            ELSE SetArr(c, dp, RemoveAt(Arr(c, dp), draggedIndexInParent + 1))
        inserted == SetArr(removed, tp,
                        InsertAt(Arr(removed, tp), targetIndexInParent + 2,
                                 movedTitre))
    IN  Toast(renderTree(inserted), "Titre deplace avec succes")

moveTitre(s, fromIndex, toIndex) ==
    IF fromIndex = toIndex THEN s
    ELSE
    LET c == captureState(s, "Deplacement de titre")
    IN
    IF fromIndex + 1 \notin 1..Len(c.flatTitles)
       \/ toIndex + 1 \notin 1..Len(c.flatTitles)
    THEN Toast(c, "Erreur lors du deplacement")
    ELSE
    LET draggedItem == c.flatTitles[fromIndex + 1]
        targetItem == c.flatTitles[toIndex + 1]
        draggedParentPath == Front(draggedItem.path)
        draggedIndexInParent == Last(draggedItem.path)
        targetParentPath == Front(targetItem.path)
        targetIndexInParent == Last(targetItem.path)
        dp == Walk(c, 0, draggedParentPath)
        tp == Walk(c, 0, targetParentPath)
        movedTitre == Arr(c, dp)[draggedIndexInParent + 1]
        removed == SetArr(c, dp, RemoveAt(Arr(c, dp), draggedIndexInParent + 1))
        adjustedTargetIndex ==
            IF draggedParentPath = targetParentPath
               /\ draggedIndexInParent < targetIndexInParent
            THEN targetIndexInParent - 1 ELSE targetIndexInParent
        inserted == SetArr(removed, tp,
                        InsertAt(Arr(removed, tp), adjustedTargetIndex + 2,
                                 movedTitre))
    IN  Toast(renderTree(inserted), "Titre deplace avec succes")

\* pendingParentIndex = null
NoIndex == -1

\* the first id no live object uses
FreshId(s) == CHOOSE i \in ObjIds : i \notin DOMAIN s.titres
                  /\ \A j \in ObjIds : j < i => j \in DOMAIN s.titres

confirmNewTitle(s, pendingParentIndex, intitule, niveau) ==
    IF intitule = <<>> THEN Toast(s, "L'intitule est requis")
    ELSE
    LET c == captureState(s, "Creation de titre")
        hasParent == pendingParentIndex # NoIndex
                     /\ pendingParentIndex + 1 \in 1..Len(c.flatTitles)
        holder == IF hasParent THEN c.flatTitles[pendingParentIndex + 1].titre
                  ELSE 0
        parentIdReglement == IF hasParent THEN c.titres[holder].idTitre
                             ELSE c.pluData.idReglement
        titleCount == Len(Arr(c, holder)) + 1
        id == FreshId(c)
        newTitre == [idTitre |-> TitreId(parentIdReglement, Slug(intitule),
                                         titleCount),
                     intitule |-> intitule,
                     niveau |-> niveau,
                     numero |-> <<>>,
                     idZone |-> <<"porteeGenerale">>,
                     idPrescription |-> <<"nonConcerne">>,
                     inseeCommune |-> c.pluData.inseeCommune,
                     contenu |-> <<>>,
                     titre |-> <<>>]
        heap == [c EXCEPT !.titres = (id :> newTitre) @@ c.titres]
        pushed == SetArr(heap, holder, Append(Arr(heap, holder), id))
    IN  Toast(renderTree(pushed), "Titre cree avec succes")

deleteTitre(s, flatIndex, confirmed) ==
    IF s.pluData = Null THEN Toast(s, "Aucun PLU charge")
    ELSE IF flatIndex < 0 \/ flatIndex >= Len(s.flatTitles)
    THEN Toast(s, "Index de titre invalide")
    ELSE IF ~confirmed THEN s
    ELSE
    LET c == captureState(s, "Suppression de titre")
        path == c.flatTitles[flatIndex + 1].path
        holder == Walk(c, 0, Front(path))
        spliced == SetArr(c, holder, RemoveAt(Arr(c, holder), Last(path) + 1))
    IN  IF ~WalkOk(c, 0, Front(path))
        THEN Toast(c, "Erreur: structure de titre invalide")
        ELSE Toast([renderTree(spliced) EXCEPT !.editorScreen = FALSE],
                   "Titre supprime")

(***************************************************************************)
(* editor.js                                                               *)
(***************************************************************************)
selectTitre(s, flatIndex) ==
    IF flatIndex < 0 \/ flatIndex >= Len(s.flatTitles)
    THEN Toast(s, "Index de titre invalide")
    ELSE [setCurrentContenu(setCurrentTitre(s, flatIndex), NoContenu)
             EXCEPT !.editorScreen = TRUE]

\* the index of the object state.currentContenu in the list, 0-based, and
\* -1 when the list does not hold it: Array.prototype.indexOf
IndexOfCurrent(s) ==
    IF s.currentContenu.kind = "at" THEN s.currentContenu.index ELSE -1

\* where the reference points once the entry at index (0-based) is spliced
\* out of the list
AfterSplice(ref, index) ==
    IF ref.kind # "at" THEN ref
    ELSE IF ref.index = index THEN [kind |-> "gone"]
    ELSE IF ref.index > index THEN [kind |-> "at", index |-> ref.index - 1]
    ELSE ref

\* arr.splice(start, 1) and arr.splice(start, 0, ...items), start 0-based
\* and possibly negative
SpliceStart(arr, start) ==
    IF start < 0 THEN (IF Len(arr) + start < 0 THEN 0 ELSE Len(arr) + start)
    ELSE IF start > Len(arr) THEN Len(arr) ELSE start

SpliceOut(arr, start) ==
    LET b == SpliceStart(arr, start)
    IN  SubSeq(arr, 1, b) \o SubSeq(arr, b + 2, Len(arr))

SpliceIn(arr, start, items) ==
    LET b == SpliceStart(arr, start)
    IN  SubSeq(arr, 1, b) \o items \o SubSeq(arr, b + 1, Len(arr))

moveContenu(s, fromIndex, toIndex) ==
    IF fromIndex = toIndex THEN s
    ELSE
    LET c == captureState(s, "Deplacement de contenu")
        contenus == CurObj(c).contenu
        movedContenu == contenus[fromIndex + 1]
        adjustedToIndex == IF fromIndex < toIndex THEN toIndex ELSE toIndex + 1
        moved == SpliceIn(SpliceOut(contenus, fromIndex), adjustedToIndex,
                          <<movedContenu>>)
    IN  Toast(SetCurObj(c, [CurObj(c) EXCEPT !.contenu = moved]),
              "Contenu deplace avec succes")

addContent(s) ==
    IF ~HasTitre(s) THEN Toast(s, "Selectionnez d'abord un titre")
    ELSE Toast([setCurrentContenu(s, NoContenu) EXCEPT
                    !.editor = TRUE, !.isEditing = TRUE],
               "Saisissez le contenu")

editContent(s, index) ==
    Toast([setCurrentContenu(s, [kind |-> "at", index |-> index]) EXCEPT
               !.editor = TRUE, !.isEditing = TRUE],
          "Contenu charge dans l'editeur")

\* cancelEditContent without the reset of state.isEditing
cancelKeepEditing(s) == Toast(setCurrentContenu(s, NoContenu), "Edition annulee")

cancelEditContent(s) ==
    Toast([setCurrentContenu(s, NoContenu) EXCEPT !.isEditing = FALSE],
          "Edition annulee")

deleteContent(s, index, confirmed) ==
    IF ~HasTitre(s) THEN Toast(s, "Aucun titre selectionne")
    ELSE IF index + 1 \notin 1..Len(CurObj(s).contenu)
    THEN Toast(s, "Contenu introuvable")
    ELSE IF ~confirmed THEN s
    ELSE
    LET c == captureState(s, "Suppression de contenu")
        spliced == SetCurObj(c, [CurObj(c) EXCEPT
                       !.contenu = SpliceOut(@, index)])
    IN  Toast([spliced EXCEPT
                  !.currentContenu = AfterSplice(@, index)],
              "Contenu supprime")

\* the title fields of the form, assigned before the validation
WithForm(obj, form, insee) ==
    [obj EXCEPT !.intitule = form.intitule,
                !.niveau = form.niveau,
                !.idZone = form.idZone,
                !.idPrescription = form.idPrescription,
                !.numero = form.numero,
                !.inseeCommune = insee]

\* the checked boxes of #input-insee-checkboxes
Checked(s, form) == IF form.checked THEN s.pluData.inseeCommune ELSE <<>>

\* the forEach numbering from 0 instead of 1
RenumberFromZero(contenus, baseId) ==
    [i \in 1..Len(contenus) |->
        [contenus[i] EXCEPT !.idContenu = ContenuId(baseId, i - 1)]]

\* the forEach that renumbers the list
Renumber(contenus, baseId) ==
    [i \in 1..Len(contenus) |->
        [contenus[i] EXCEPT !.idContenu = ContenuId(baseId, i)]]

IsEmptySplit(parts) ==
    \/ Len(parts) = 0
    \/ /\ Len(parts) = 1
       /\ (~HasContent(parts[1]) \/ Len(parts[1].content) = 0)

saveContent(s, form, fullDoc) ==
    IF ~HasTitre(s) THEN Toast(s, "Selectionnez d'abord un titre")
    ELSE IF ~s.editor THEN Toast(s, "L'editeur n'est pas initialise")
    ELSE
    LET c == captureState(s, IF s.currentContenu.kind # "null"
                             THEN "Modification de contenu"
                             ELSE "Ajout de contenu")
        m == SetCurObj(c, WithForm(CurObj(c), form, Checked(c, form)))
        titre == CurObj(m)
        contenuIdZone == IF form.contenuZone # <<>>
                         THEN form.contenuZone ELSE titre.idZone
        contenuIdPrescription == IF form.contenuPrescription # <<>>
                                 THEN form.contenuPrescription
                                 ELSE titre.idPrescription
        parts == splitTipTapBySeparator(fullDoc)
        editing == m.currentContenu.kind # "null"
        existingIndex == IndexOfCurrent(m)
        kept == IF editing THEN SpliceOut(titre.contenu, existingIndex)
                ELSE titre.contenu
        startIndex == IF editing THEN existingIndex ELSE Len(titre.contenu)
        baseId == ContenuBase(m.pluData.idReglement, titre.idTitre)
        htmls == SelectSeq([i \in 1..Len(parts) |->
                               tiptapToHtmlArray(parts[i])],
                           LAMBDA h : Len(h) # 0)
        newContents == [i \in 1..Len(htmls) |->
                           [idContenu |-> ContenuId(baseId, startIndex + i),
                            idZone |-> contenuIdZone,
                            idPrescription |-> contenuIdPrescription,
                            html |-> htmls[i]]]
        final == Renumber(SpliceIn(kept, startIndex, newContents), baseId)
        done == [SetCurObj(m, [titre EXCEPT !.contenu = final]) EXCEPT
                    !.currentContenu = NoContenu,
                    !.isEditing = FALSE]
    IN  IF Len(titre.inseeCommune) = 0
        THEN Toast(m, "Au moins une commune doit etre selectionnee")
        ELSE IF IsEmptySplit(parts) THEN Toast(m, "Le contenu est vide")
        ELSE Toast(renderTree(done),
                   IF Len(newContents) > 1 THEN "contenus crees avec succes"
                   ELSE "Contenu enregistre avec succes")

saveTitreMetadata(s, form) ==
    IF ~HasTitre(s) THEN Toast(s, "Selectionnez d'abord un titre")
    ELSE
    LET c == captureState(s, "Modification des metadonnees du titre")
        m == SetCurObj(c, WithForm(CurObj(c), form, Checked(c, form)))
    IN  IF Len(CurObj(m).inseeCommune) = 0
        THEN Toast(m, "Au moins une commune doit etre selectionnee")
        ELSE Toast(renderTree(m), "Metadonnees du titre enregistrees")

(***************************************************************************)
(* metadata.js                                                             *)
(***************************************************************************)
DigitChars == {"0", "1", "2", "3", "4", "5", "6", "7", "8", "9"}

\* /^\d{n}$/.test(str)
IsDigits(str, n) ==
    Len(str) = n /\ \A i \in 1..Len(str) : str[i] \in DigitChars

\* updateAllTitreIds without the recursion into the sub-titles
RECURSIVE updateTopTitreIds(_, _, _, _)
updateTopTitreIds(heap, ids, oldPrefix, newPrefix) ==
    IF ids = <<>> THEN heap
    ELSE LET t == heap[Head(ids)]
             renamed == [t EXCEPT
                 !.idTitre = ReplacePrefix(@, oldPrefix, newPrefix),
                 !.contenu = [i \in 1..Len(t.contenu) |->
                     [t.contenu[i] EXCEPT !.idContenu =
                         ReplacePrefix(@, oldPrefix, newPrefix)]]]
             here == [heap EXCEPT ![Head(ids)] = renamed]
         IN  updateTopTitreIds(here, Tail(ids), oldPrefix, newPrefix)

RECURSIVE updateAllTitreIds(_, _, _, _)
updateAllTitreIds(heap, ids, oldPrefix, newPrefix) ==
    IF ids = <<>> THEN heap
    ELSE LET t == heap[Head(ids)]
             renamed == [t EXCEPT
                 !.idTitre = ReplacePrefix(@, oldPrefix, newPrefix),
                 !.contenu = [i \in 1..Len(t.contenu) |->
                     [t.contenu[i] EXCEPT !.idContenu =
                         ReplacePrefix(@, oldPrefix, newPrefix)]]]
             here == [heap EXCEPT ![Head(ids)] = renamed]
             below == updateAllTitreIds(here, t.titre, oldPrefix, newPrefix)
         IN  updateAllTitreIds(below, Tail(ids), oldPrefix, newPrefix)

RECURSIVE updateAllInseeCommune(_, _, _)
updateAllInseeCommune(heap, ids, inseeCommune) ==
    IF ids = <<>> THEN heap
    ELSE LET t == heap[Head(ids)]
             here == [heap EXCEPT ![Head(ids)].inseeCommune = inseeCommune]
             below == updateAllInseeCommune(here, t.titre, inseeCommune)
         IN  updateAllInseeCommune(below, Tail(ids), inseeCommune)

WithoutField(r, f) == [k \in DOMAIN r \ {f} |-> r[k]]

saveMetadata(s, f) ==
    IF f.nom = <<>> THEN Toast(s, "Le nom du reglement est requis")
    ELSE IF ~IsDigits(f.date, 8)
    THEN Toast(s, "La date doit etre au format AAAAMMJJ")
    ELSE IF Len(f.insee) = 0 THEN Toast(s, "Au moins un code INSEE est requis")
    ELSE IF \E i \in 1..Len(f.insee) : ~IsDigits(f.insee[i], 5)
    THEN Toast(s, "Code INSEE invalide")
    ELSE IF f.typeDoc = "PLUi" /\ ~IsDigits(f.siren, 9)
    THEN Toast(s, "Pour un PLUi, le code SIREN est requis")
    ELSE
    LET idUrba == IF f.typeDoc = "PLUi" /\ f.siren # <<>>
                  THEN IdUrba(f.siren, "PLUi", f.date)
                  ELSE IdUrba(f.insee[1], f.typeDoc, f.date)
        oldIdReglement == s.pluData.idReglement
        base == [WithoutField(s.pluData, "sirenEpci") EXCEPT
                    !.nom = f.nom,
                    !.typeDoc = f.typeDoc,
                    !.idUrba = idUrba,
                    !.idReglement = IdReglementOf(idUrba),
                    !.inseeCommune = f.insee]
        plu == IF f.typeDoc = "PLUi" THEN base @@ [sirenEpci |-> f.siren]
               ELSE base
        renamed == IF oldIdReglement # plu.idReglement
                   THEN updateAllTitreIds(s.titres, plu.titre, oldIdReglement,
                                          plu.idReglement)
                   ELSE s.titres
        heap == updateAllInseeCommune(renamed, plu.titre, f.insee)
    IN  Toast(renderTree([s EXCEPT !.pluData = plu, !.titres = heap]),
              "Metadonnees mises a jour avec succes")

(***************************************************************************)
(* storage.js                                                              *)
(***************************************************************************)
Today == <<"2", "0", "2", "4", "0", "1", "0", "1">>

createNewPLU(s, insee) ==
    IF insee = <<>> \/ Len(insee) # 5 THEN Toast(s, "Code INSEE invalide")
    ELSE
    LET idUrba == IdUrba(insee, "PLU", Today)
        plu == [idReglement |-> IdReglementOf(idUrba),
                nom |-> <<"Reglement du Plan Local d'Urbanisme">>,
                typeDoc |-> "PLU",
                idUrba |-> idUrba,
                inseeCommune |-> <<insee>>,
                titre |-> <<>>]
        loaded == [Detach(clearHistory(s)) EXCEPT
                      !.pluData = plu, !.titres = <<>>]
    IN  Toast(renderTree(loaded), "Nouveau PLU cree avec succes")

\* data is the parsed JSON: the document record and its Titre objects
loadPLU(s, data) ==
    IF "idReglement" \notin DOMAIN data.pluData
       \/ "nom" \notin DOMAIN data.pluData
       \/ "typeDoc" \notin DOMAIN data.pluData
    THEN Toast(s, "Erreur lors de chargement du fichier JSON")
    ELSE
    LET loaded == [Detach(clearHistory(s)) EXCEPT
                      !.pluData = data.pluData, !.titres = data.titres]
    IN  Toast(renderTree(loaded), "PLU charge avec succes")

\* firstContent.html[0] is the heading of the title
HasIntitule(firstContent, titre) ==
    /\ Len(firstContent.html) > 0
    /\ "tag" \in DOMAIN firstContent.html[1]
    /\ firstContent.html[1].tag = HTag(titre.niveau)
    /\ "text" \in DOMAIN firstContent.html[1]
    /\ firstContent.html[1].text = titre.intitule

\* addIntituleAsFirstContent on each title of the array ids
RECURSIVE addIntituleAsFirstContent(_, _, _)
addIntituleAsFirstContent(heap, ids, baseId) ==
    IF ids = <<>> THEN heap
    ELSE
    LET titre == heap[Head(ids)]
        headingContent ==
            [idContenu |-> ContenuId(baseId, 0),
             idZone |-> titre.idZone,
             idPrescription |-> titre.idPrescription,
             html |-> <<[tag |-> HTag(titre.niveau),
                         text |-> titre.intitule]>>]
        contenu ==
            IF Len(titre.contenu) > 0
            THEN IF HasIntitule(titre.contenu[1], titre) THEN titre.contenu
                 ELSE Renumber(<<headingContent>> \o titre.contenu,
                               ContenuBase(baseId, titre.idTitre))
            ELSE <<headingContent>>
        here == [heap EXCEPT ![Head(ids)].contenu = contenu]
        below == addIntituleAsFirstContent(here, titre.titre, baseId)
    IN  addIntituleAsFirstContent(below, Tail(ids), baseId)

\* exportPLU that adds the headings to the live document
exportInPlace(s) ==
    IF s.pluData = Null
    THEN [s |-> Toast(s, "Erreur lors de exportation du PLU"), json |-> Null]
    ELSE LET heap == addIntituleAsFirstContent(s.titres, s.pluData.titre,
                                               s.pluData.idReglement)
             live == [s EXCEPT !.titres = heap]
         IN  [s |-> Toast(live, "PLU exporte avec succes"),
              json |-> DeepCopy(live)]

\* s is the session after the export, json the document put in the archive
exportPLU(s) ==
    IF s.pluData = Null
    THEN [s |-> Toast(s, "Erreur lors de exportation du PLU"), json |-> Null]
    ELSE LET pluDataCopy == DeepCopy(s)
             heap == addIntituleAsFirstContent(pluDataCopy.titres,
                                               pluDataCopy.pluData.titre,
                                               pluDataCopy.pluData.idReglement)
         IN  [s |-> Toast(s, "PLU exporte avec succes"),
              json |-> [pluDataCopy EXCEPT !.titres = heap]]

\* The HTML of a DOCX is the list of its elements.  An element is a line
\* "#key value" (text "meta"), a text that starts with # and is no such
\* line (text "hash"), another text (text "plain") or blank (text "empty").
\* The metadata read from the leading lines, later lines overriding.
RECURSIVE MetadataLoop(_, _, _)
MetadataLoop(nodes, i, metadata) ==
    IF i > Len(nodes) THEN metadata
    ELSE IF nodes[i].text = "meta"
    THEN MetadataLoop(nodes, i + 1,
                      (nodes[i].key :> nodes[i].value) @@ metadata)
    ELSE IF nodes[i].text = "plain" THEN metadata
    ELSE MetadataLoop(nodes, i + 1, metadata)

\* metadata[key], undefined read as Null
Meta(metadata, key) ==
    IF key \in DOMAIN metadata THEN metadata[key] ELSE Null

\* parseDOCXHTML without the test of metadata.nom
parseNoNomCheck(s, html) ==
    LET metadata == MetadataLoop(html, 1, <<>>)
    IN  IF "idUrba" \notin DOMAIN metadata \/ "typeDoc" \notin DOMAIN metadata
        THEN Null
        ELSE
        LET given == [i \in 1..Len(Meta(metadata, "inseeCommune")) |->
                         Trim(Meta(metadata, "inseeCommune")[i])]
            codes == SelectSeq(given, LAMBDA c : c # <<>>)
            plu == [idReglement |->
                        IF "idReglement" \in DOMAIN metadata
                        THEN Meta(metadata, "idReglement")
                        ELSE IdReglementOf(Meta(metadata, "idUrba")),
                    nom |-> Meta(metadata, "nom"),
                    typeDoc |-> Meta(metadata, "typeDoc"),
                    idUrba |-> Meta(metadata, "idUrba"),
                    inseeCommune |->
                        IF Len(codes) = 0
                        THEN <<(<<"0", "0", "0", "0", "0">>)>> ELSE codes,
                    titre |-> <<>>]
        IN  renderTree([Detach(s) EXCEPT !.pluData = plu, !.titres = <<>>])

\* Null when the function throws.  The documents imported here end with
\* their metadata: parseTitlesFromHTMLNodes gets no node and adds no title.
parseDOCXHTML(s, html) ==
    LET metadata == MetadataLoop(html, 1, <<>>)
    IN  IF "nom" \notin DOMAIN metadata \/ "idUrba" \notin DOMAIN metadata
           \/ "typeDoc" \notin DOMAIN metadata
        THEN Null
        ELSE
        LET given == [i \in 1..Len(Meta(metadata, "inseeCommune")) |->
                         Trim(Meta(metadata, "inseeCommune")[i])]
            codes == SelectSeq(given, LAMBDA c : c # <<>>)
            plu == [idReglement |->
                        IF "idReglement" \in DOMAIN metadata
                        THEN Meta(metadata, "idReglement")
                        ELSE IdReglementOf(Meta(metadata, "idUrba")),
                    nom |-> Meta(metadata, "nom"),
                    typeDoc |-> Meta(metadata, "typeDoc"),
                    idUrba |-> Meta(metadata, "idUrba"),
                    inseeCommune |->
                        IF Len(codes) = 0
                        THEN <<(<<"0", "0", "0", "0", "0">>)>> ELSE codes,
                    titre |-> <<>>]
        IN  renderTree([Detach(s) EXCEPT !.pluData = plu, !.titres = <<>>])

importDOCX(s, file) ==
    IF ~file.docx THEN Toast(s, "Erreur lors de importation du DOCX")
    ELSE LET parsed == parseDOCXHTML(Toast(s, "Traitement du fichier DOCX"),
                                     file.html)
         IN  IF parsed = Null
             THEN Toast(s, "Erreur lors de importation du DOCX")
             ELSE Toast(parsed, "DOCX importe avec succes")

(***************************************************************************)
(* images.js.  The store is the set of the [key, value] items of           *)
(* localStorage that hold an image; it has room for MaxStored of them.     *)
(***************************************************************************)
IMAGE_PREFIX == "plu_image_"

Keys(store) == {item.key : item \in store}

\* localStorage.setItem(key, value): fault is the error the browser raises
\* for a reason other than the quota, "none" when there is no such reason
setItem(store, key, value, fault) ==
    IF fault # "none" THEN [thrown |-> fault, store |-> store]
    ELSE IF key \notin Keys(store) /\ Cardinality(store) >= MaxStored
    THEN [thrown |-> "QuotaExceededError", store |-> store]
    ELSE [value |-> key,
          store |-> {item \in store : item.key # key}
                    \cup {[key |-> key, value |-> value]}]

\* localStorage.getItem(key), Null for null
getItem(store, key) ==
    IF key \in Keys(store)
    THEN (CHOOSE item \in store : item.key = key).value
    ELSE Null

QuotaMessage == "Espace de stockage insuffisant pour les images"

\* the outcome of storeImage and the store after it
storeImage(store, idUrba, filename, base64Data, contentType, fault) ==
    LET key == <<IMAGE_PREFIX, idUrba, filename>>
        imageData == [filename |-> filename, contentType |-> contentType,
                      base64 |-> base64Data]
        set == setItem(store, key, imageData, fault)
    IN  IF Returns(set) THEN set
        ELSE IF set.thrown = "QuotaExceededError"
        THEN [thrown |-> QuotaMessage, store |-> set.store]
        ELSE set

\* the forEach of importDOCX over window.docxImages from image i on: every
\* error of storeImage is caught and written to the console
RECURSIVE StoreImages(_, _, _, _, _, _)
StoreImages(store, idUrba, images, i, faultAt, console) ==
    IF i > Len(images) THEN [store |-> store, console |-> console]
    ELSE LET out == storeImage(store, idUrba, images[i].filename,
                               images[i].buffer, images[i].contentType,
                               IF faultAt = i THEN "SecurityError" ELSE "none")
         IN  StoreImages(out.store, idUrba, images, i + 1, faultAt,
                         IF Returns(out) THEN console
                         ELSE Append(console,
                                     [filename |-> images[i].filename,
                                      error |-> out.thrown]))

\* importDOCX of a file with images: s is the session after it, store the
\* images after it, console the errors written to the console
importDOCXImages(s, store, file, faultAt) ==
    LET after == importDOCX(s, file)
    IN  IF after.toast = "error"
        THEN [s |-> after, store |-> store, console |-> <<>>]
        ELSE [s |-> after] @@
             StoreImages(store, after.pluData.idUrba, file.images, 1,
                         faultAt, <<>>)

(***************************************************************************)
(* The inputs of a session                                                 *)
(***************************************************************************)
Code1 == <<"1", "4", "0", "2", "7">>
Date2 == <<"2", "0", "2", "5", "0", "6", "3", "0">>

InseeInputs == {Code1, <<"1", "4">>}

NewTitles == {[intitule |-> <<"A">>, niveau |-> 1],
              [intitule |-> <<>>, niveau |-> 1]}

FormB == [intitule |-> <<"B">>, niveau |-> 2, idZone |-> <<"U">>,
          idPrescription |-> <<"nonConcerne">>, numero |-> <<"1">>,
          checked |-> TRUE, contenuZone |-> <<>>,
          contenuPrescription |-> <<>>]
FormNoCommune == [FormB EXCEPT !.checked = FALSE]
TitreForms == {FormB, FormNoCommune}

Pa == P(<<Text(<<"a">>)>>)
Pb == P(<<Text(<<"b">>)>>)
Stars == P(<<Text(Str3)>>)
EditorDocs == {Doc(<<>>), Doc(<<Pa, Stars, Pb>>), Doc(<<Stars>>)}

MetaForms == {[nom |-> <<"N">>, typeDoc |-> "PLU", date |-> Date2,
               insee |-> <<Code1>>, siren |-> <<>>],
              [nom |-> <<>>, typeDoc |-> "PLU", date |-> Date2,
               insee |-> <<Code1>>, siren |-> <<>>]}

\* a JSON file holding a document that an earlier session saved: titles
\* A (with the child B and three contents) and C
FileId == IdReglementOf(IdUrba(Code1, "PLU", Today))
FileTitre(intitule, niveau, id, contenu, titre) ==
    [idTitre |-> id, intitule |-> intitule, niveau |-> niveau,
     numero |-> <<>>, idZone |-> <<"porteeGenerale">>,
     idPrescription |-> <<"nonConcerne">>, inseeCommune |-> <<Code1>>,
     contenu |-> contenu, titre |-> titre]
FileContenu(base, n, html) ==
    [idContenu |-> ContenuId(base, n), idZone |-> <<"porteeGenerale">>,
     idPrescription |-> <<"nonConcerne">>, html |-> html]
FileA == TitreId(FileId, <<"a">>, 1)
FileData ==
    [pluData |-> [idReglement |-> FileId, nom |-> <<"N">>, typeDoc |-> "PLU",
                  idUrba |-> IdUrba(Code1, "PLU", Today),
                  inseeCommune |-> <<Code1>>, titre |-> <<1, 3>>],
     titres |-> <<FileTitre(<<"A">>, 1, FileA,
                    [n \in 1..MaxContenu |->
                        FileContenu(ContenuBase(FileId, FileA), n,
                            <<[tag |-> "p", text |-> <<Digit(n)>>]>>)],
                    <<2>>),
                  FileTitre(<<"B">>, 2, TitreId(FileA, <<"b">>, 1), <<>>, <<>>),
                  FileTitre(<<"C">>, 1, TitreId(FileId, <<"c">>, 2), <<>>,
                            <<>>)>>]
\* a second file: the three titles A, B and C side by side, no content
FileSiblings ==
    [pluData |-> [FileData.pluData EXCEPT !.titre = <<1, 2, 3>>],
     titres |-> <<FileTitre(<<"A">>, 1, FileA, <<>>, <<>>),
                  FileTitre(<<"B">>, 1, TitreId(FileId, <<"b">>, 2), <<>>,
                            <<>>),
                  FileTitre(<<"C">>, 1, TitreId(FileId, <<"c">>, 3), <<>>,
                            <<>>)>>]
BadFile == [pluData |-> [idReglement |-> FileId, typeDoc |-> "PLU"],
            titres |-> <<>>]
Files == {FileData, FileSiblings, BadFile}

(***************************************************************************)
(* The session as a state machine                                          *)
(***************************************************************************)
St == Collect(
    [pluData |-> pluData, titres |-> titres, currentTitre |-> currentTitre,
     currentContenu |-> currentContenu, flatTitles |-> flatTitles,
     editor |-> editor, isEditing |-> isEditing,
     editorScreen |-> editorScreen, undoStack |-> undoStack,
     redoStack |-> redoStack, isRestoring |-> isRestoring, toast |-> toast])

\* the bounds of the exploration
Bounded(r) ==
    /\ Len(r.undoStack) <= MaxUndo
    /\ Cardinality(DOMAIN Collect(r).titres) <= MaxNodes
    /\ \A i \in DOMAIN r.titres : Len(r.titres[i].contenu) <= MaxContenu
    /\ r.currentTitre.kind = "detached"
           => Len(r.currentTitre.obj.contenu) <= MaxContenu

AssignEditor(r) ==
    /\ pluData' = r.pluData
    /\ titres' = r.titres
    /\ currentTitre' = r.currentTitre
    /\ currentContenu' = r.currentContenu
    /\ flatTitles' = r.flatTitles
    /\ editor' = r.editor
    /\ isEditing' = r.isEditing
    /\ editorScreen' = r.editorScreen
    /\ undoStack' = r.undoStack
    /\ redoStack' = r.redoStack
    /\ isRestoring' = r.isRestoring
    /\ toast' = r.toast

Assign(r) == AssignEditor(r) /\ UNCHANGED splitVars

\* a handler ran to its end
Ran(r) == Bounded(r) /\ Assign(Collect(r))

\* the tree is on screen: renderTree drew one item per flat title
TreeShown == pluData # Null /\ Len(pluData.titre) > 0
FlatIndices == IF TreeShown THEN 0..(Len(flatTitles) - 1) ELSE {}
ContentIndices ==
    IF editorScreen /\ HasTitre(St) THEN 0..(Len(CurObj(St).contenu) - 1)
    ELSE {}

\* askSaveBeforeSwitch: OK saves, Cancel abandons
askSaveBeforeSwitch(s, choice, form, doc) ==
    IF choice THEN saveContent(s, form, doc) ELSE cancelEditContent(s)

\* the states a click handler of the tree goes on from: saveContent
\* returns, and the handler goes on, also when it rejects the form
Switched ==
    IF isEditing
    THEN {askSaveBeforeSwitch(St, choice, form, doc) :
              choice \in BOOLEAN, form \in TitreForms, doc \in {Doc(<<Pa>>)}}
    ELSE {St}

\* The results of a handler, one for each input the user can give it in the
\* current state.
createNewPLUResults == {createNewPLU(St, insee) : insee \in InseeInputs}

loadPLUResults == {loadPLU(St, data) : data \in Files}

saveMetadataResults ==
    IF pluData = Null THEN {}
    ELSE {saveMetadata(St, f) : f \in MetaForms}

confirmNewTitleResults ==
    IF pluData = Null THEN {}
    ELSE {confirmNewTitle(s, parent, t.intitule, t.niveau) :
              s \in Switched, parent \in FlatIndices \cup {NoIndex},
              t \in NewTitles}

deleteTitreResults ==
    {deleteTitre(s, index, confirmed) :
         s \in Switched, index \in FlatIndices, confirmed \in BOOLEAN}

selectTitreResults ==
    {selectTitre(s, index) : s \in Switched, index \in FlatIndices}

\* the drop handler of a tree item without the test of state.isEditing
DropTitreResultNoCheck(s, from, to) ==
    IF to = from THEN s ELSE moveTitre(s, from, to)

\* the drop handler of a tree item
DropTitreResult(s, from, to) ==
    IF to = from THEN s
    ELSE IF s.isEditing
    THEN Toast(s, "Veuillez sauvegarder ou annuler avant de reorganiser")
    ELSE moveTitre(s, from, to)

dropTitreResults ==
    {DropTitreResult(St, from, to) : from \in FlatIndices, to \in FlatIndices}

\* the drop handler of a content item
DropContenuResult(s, from, to) ==
    IF to = from THEN s
    ELSE IF s.isEditing
    THEN Toast(s, "Veuillez sauvegarder ou annuler avant de reorganiser")
    ELSE moveContenu(s, from, to)

dropContenuResults ==
    {DropContenuResult(St, from, to) :
         from \in ContentIndices, to \in ContentIndices}

addContentResults == IF editorScreen THEN {addContent(St)} ELSE {}

editContentResults == {editContent(St, index) : index \in ContentIndices}

cancelEditContentResults ==
    IF editorScreen /\ isEditing THEN {cancelEditContent(St)} ELSE {}

deleteContentResults ==
    {deleteContent(St, index, confirmed) :
         index \in ContentIndices, confirmed \in BOOLEAN}

saveContentResults ==
    IF editorScreen
    THEN {saveContent(St, form, doc) : form \in TitreForms, doc \in EditorDocs}
    ELSE {}

saveTitreMetadataResults ==
    IF editorScreen
    THEN {saveTitreMetadata(St, form) : form \in TitreForms}
    ELSE {}

CreateNewPLU == \E r \in createNewPLUResults : Ran(r)

LoadPLU == \E r \in loadPLUResults : Ran(r)

SaveMetadata == \E r \in saveMetadataResults : Ran(r)

ClickAddTitle == \E r \in confirmNewTitleResults : Ran(r)

ClickDeleteTitle == \E r \in deleteTitreResults : Ran(r)

ClickSelectTitre == \E r \in selectTitreResults : Ran(r)

\* the step keeps the heap as moveTitre left it
DropTitre == \E r \in dropTitreResults : Bounded(r) /\ Assign(r)

DropContenu == \E r \in dropContenuResults : Ran(r)

AddContent == \E r \in addContentResults : Ran(r)

EditContent == \E r \in editContentResults : Ran(r)

CancelEditContent == \E r \in cancelEditContentResults : Ran(r)

DeleteContent == \E r \in deleteContentResults : Ran(r)

SaveContent == \E r \in saveContentResults : Ran(r)

SaveTitreMetadata == \E r \in saveTitreMetadataResults : Ran(r)

ExportPLU == Ran(exportPLU(St).s)

Undo == Ran(undo(St))

Redo == Ran(redo(St))

Init ==
    /\ pluData = Null
    /\ titres = <<>>
    /\ currentTitre = NoTitre
    /\ currentContenu = NoContenu
    /\ flatTitles = <<>>
    /\ editor = FALSE
    /\ isEditing = FALSE
    /\ editorScreen = FALSE
    /\ undoStack = <<>>
    /\ redoStack = <<>>
    /\ isRestoring = FALSE
    /\ toast = "none"
    /\ tiptapDoc = Null
    /\ docParts = <<>>
    /\ splitDone = FALSE
    /\ htmlArray = <<>>
    /\ backDoc = Null
    /\ convStep = "doc"
    /\ localStorage = {}
    /\ refs = [live |-> 0, undo |-> <<>>, redo |-> <<>>]

Next ==
    \/ CreateNewPLU
    \/ LoadPLU
    \/ SaveMetadata
    \/ ClickAddTitle
    \/ ClickDeleteTitle
    \/ ClickSelectTitre
    \/ DropTitre
    \/ DropContenu
    \/ AddContent
    \/ EditContent
    \/ CancelEditContent
    \/ DeleteContent
    \/ SaveContent
    \/ SaveTitreMetadata
    \/ ExportPLU
    \/ Undo
    \/ Redo

Spec == Init /\ [][Next]_vars

(***************************************************************************)
(* The splitter on its own: splitTipTapBySeparator applied once to a       *)
(* document of at most MaxBlocks top-level blocks.                         *)
(***************************************************************************)
StarsPadded == P(<<Text(<<" ", "*", "*", "*", " ">>)>>)
TwoRuns == P(<<Text(<<"*", "*">>), Bold(<<"*">>)>>)
\* a list whose only item holds the paragraph ***
ListStars ==
    [type |-> "bulletList",
     content |-> <<[type |-> "listItem", content |-> <<Stars>>]>>]
SplitBlocks == {Pa, Pb, Stars, StarsPadded, TwoRuns, EmptyP, ListStars}

RECURSIVE BlockSeqs(_)
BlockSeqs(n) ==
    IF n = 0 THEN {<<>>}
    ELSE BlockSeqs(n - 1)
         \cup {Append(q, b) : q \in {r \in BlockSeqs(n - 1) : Len(r) = n - 1},
                              b \in SplitBlocks}

SplitInputs ==
    {Doc(q) : q \in BlockSeqs(MaxBlocks)} \cup {Null, [type |-> "doc"]}

InitSplit ==
    /\ pluData = Null
    /\ titres = <<>>
    /\ currentTitre = NoTitre
    /\ currentContenu = NoContenu
    /\ flatTitles = <<>>
    /\ editor = FALSE
    /\ isEditing = FALSE
    /\ editorScreen = FALSE
    /\ undoStack = <<>>
    /\ redoStack = <<>>
    /\ isRestoring = FALSE
    /\ toast = "none"
    /\ tiptapDoc \in SplitInputs
    /\ docParts = <<>>
    /\ splitDone = FALSE
    /\ htmlArray = <<>>
    /\ backDoc = Null
    /\ convStep = "doc"
    /\ localStorage = {}
    /\ refs = [live |-> 0, undo |-> <<>>, redo |-> <<>>]

Split ==
    /\ ~splitDone
    /\ docParts' = splitTipTapBySeparator(tiptapDoc)
    /\ splitDone' = TRUE
    /\ UNCHANGED <<tiptapDoc, htmlArray, backDoc, convStep, localStorage, refs>>
    /\ UNCHANGED editorVars

NextSplit == Split

SpecSplit == InitSplit /\ [][NextSplit]_vars

(***************************************************************************)
(* Properties of the splitter                                              *)
(***************************************************************************)
\* a top-level paragraph whose whole inline content is the one string ***
\* once trimmed
SeparatorParagraph(b) ==
    /\ b.type = "paragraph"
    /\ "content" \in DOMAIN b
    /\ Len(b.content) = 1
    /\ b.content[1].type = "text"
    /\ "text" \in DOMAIN b.content[1]
    /\ Trim(b.content[1].text) = <<"*", "*", "*">>

HasBlocks(doc) == doc # Null /\ "content" \in DOMAIN doc

\* the positions where a run of non-separator blocks starts, and ends
RunStarts(blocks) ==
    {i \in 1..Len(blocks) :
        /\ ~SeparatorParagraph(blocks[i])
        /\ (i = 1 \/ SeparatorParagraph(blocks[i - 1]))}
RunEnds(blocks) ==
    {i \in 1..Len(blocks) :
        /\ ~SeparatorParagraph(blocks[i])
        /\ (i = Len(blocks) \/ SeparatorParagraph(blocks[i + 1]))}

\* the k-th smallest element of a set of numbers
Kth(S, k) == CHOOSE x \in S : Cardinality({y \in S : y <= x}) = k

MaximalRuns(blocks) ==
    [k \in 1..Cardinality(RunStarts(blocks)) |->
        SubSeq(blocks, Kth(RunStarts(blocks), k), Kth(RunEnds(blocks), k))]

PartBlocks(parts) == Flatten([k \in 1..Len(parts) |-> parts[k].content])

MixedDocument(doc) ==
    /\ HasBlocks(doc)
    /\ \E i \in 1..Len(doc.content) : SeparatorParagraph(doc.content[i])
    /\ \E i \in 1..Len(doc.content) : ~SeparatorParagraph(doc.content[i])

OnlySeparators(doc) ==
    /\ HasBlocks(doc)
    /\ Len(doc.content) > 0
    /\ \A i \in 1..Len(doc.content) : SeparatorParagraph(doc.content[i])

NoSeparator(doc) ==
    /\ HasBlocks(doc)
    /\ \A i \in 1..Len(doc.content) : ~SeparatorParagraph(doc.content[i])

C11_WitnessEmpty ==
    /\ splitDone
    /\ tiptapDoc = Doc(<<>>)
    /\ docParts = <<Doc(<<>>)>>

\* C10: a document whose top-level blocks are all separator paragraphs
\* yields zero parts.
C10_SeparatorsOnly ==
    (splitDone /\ OnlySeparators(tiptapDoc)) => Len(docParts) = 0

(***************************************************************************)
(* Properties of the history                                               *)
(***************************************************************************)
\* the document as a value: the tree of Titre records under the root
RECURSIVE TreeOf(_, _)
TreeOf(heap, ids) ==
    [i \in 1..Len(ids) |->
        [heap[ids[i]] EXCEPT !.titre = TreeOf(heap, heap[ids[i]].titre)]]

DocOf(d) ==
    IF d.pluData = Null THEN Null
    ELSE [d.pluData EXCEPT !.titre = TreeOf(d.titres, d.pluData.titre)]

\* the results of the handlers that edit the document
EditResults ==
    confirmNewTitleResults \cup deleteTitreResults \cup dropTitreResults
    \cup saveContentResults \cup deleteContentResults \cup dropContenuResults
    \cup saveTitreMetadataResults \cup saveMetadataResults

\* the handler called captureState: the live document is on the undo stack
Captured(r) == r.undoStack = Append(St.undoStack, DeepCopy(St))

\* C1: after a handler that captured the document D0 and left the document
\* D1, undo makes the live document equal to D0 and a redo right after it
\* makes the live document equal to D1 again.
C1_HistoryRoundTrip ==
    \A r \in EditResults :
        (Bounded(r) /\ Captured(r)) =>
            /\ DocOf(undo(r)) = DocOf(St)
            /\ DocOf(redo(undo(r))) = DocOf(r)

\* an undo has brought back a document that differs from the one it left,
\* and a redo now brings that one back
C1_Witness ==
    /\ pluData # Null
    /\ redoStack # <<>>
    /\ DocOf(Last(redoStack)) # DocOf(St)
    /\ DocOf(redo(St)) = DocOf(Last(redoStack))

\* C2: after an undo, a fresh captureState empties the redo stack: the next
\* redo reports that there is nothing to redo and leaves the document and
\* both stacks as they are.
C2_BranchDiscard ==
    \A r \in EditResults :
        (redoStack # <<>> /\ Bounded(r) /\ Captured(r)) =>
            /\ r.redoStack = <<>>
            /\ redo(r) = [r EXCEPT !.toast = "error"]

\* an undo has acted, and the title form saved now opens a new branch
C2_Witness ==
    /\ redoStack # <<>>
    /\ editorScreen
    /\ currentTitre.kind = "live"
    /\ LET r == saveTitreMetadata(St, FormB)
       IN  /\ Bounded(r)
           /\ DocOf(r) # DocOf(St)
           /\ r.redoStack = <<>>
           /\ redo(r).toast = "error"

\* C3: every user operation that changes the document pushes a snapshot of
\* the document as it was before the change, so that an undo right after
\* the operation restores the document of before the operation.
C3_EveryChangeUndoable ==
    \A r \in EditResults :
        (Bounded(r) /\ DocOf(r) # DocOf(St)) =>
            /\ r.undoStack # <<>>
            /\ DocOf(Last(r.undoStack)) = DocOf(St)
            /\ DocOf(undo(r)) = DocOf(St)

(***************************************************************************)
(* Properties of the content list                                          *)
(***************************************************************************)
\* the ids of a content list are <base>/contenu01 ... <base>/contenuNN
ContiguousIds(contenus) ==
    \A i \in 1..Len(contenus) :
        /\ Last(contenus[i].idContenu) = <<"contenu">> \o Pad2(i)
        /\ Front(contenus[i].idContenu) = Front(contenus[1].idContenu)

\* C4: after saveContent, deleteContent or moveContenu, the ids of the
\* content list of the selected Titre are contenu01 ... contenuNN in list
\* order, with no gap and no duplicate.
C4_ContiguousContentIds ==
    \A r \in saveContentResults \cup deleteContentResults
             \cup dropContenuResults :
        (Bounded(r) /\ r.currentTitre.kind = "live") =>
            ContiguousIds(CurObj(r).contenu)

(***************************************************************************)
(* Properties of the title tree                                            *)
(***************************************************************************)
Range(seq) == {seq[i] : i \in 1..Len(seq)}

\* the owner of the array that holds the object id: 0 for the root array
HolderOf(s, id) ==
    CHOOSE h \in {0} \cup DOMAIN s.titres : id \in Range(Arr(s, h))

\* the number of places of the heap that hold the object id
Occurrences(s, id) ==
    Cardinality({<<h, k>> \in ({0} \cup DOMAIN s.titres) \X (1..MaxNodes + 1) :
                    k <= Len(Arr(s, h)) /\ Arr(s, h)[k] = id})

\* the moves a drop can ask for
Moves ==
    IF isEditing THEN {}
    ELSE {m \in FlatIndices \X FlatIndices : m[1] # m[2]}

\* C5: moveTitre(from, to) with from # to leaves the set of the Titre nodes
\* reachable from the root of the document, and their number, unchanged.
C5_MoveKeepsNodes ==
    \A m \in Moves :
        LET r == moveTitre(St, m[1], m[2])
        IN  /\ Reach(r) = Reach(St)
            /\ Len(FlatOf(r)) = Len(FlatOf(St))

\* C6: moveTitre(from, to) with from # to puts the moved node in the array
\* that held the node at `to`, directly after that node, in the same-parent
\* moves of both directions and in the cross-parent moves; the moved node is
\* in no other array, and so is no child of the target.
C6_MovePlacesAfterTarget ==
    \A m \in Moves :
        LET r == moveTitre(St, m[1], m[2])
            moved == St.flatTitles[m[1] + 1].titre
            target == St.flatTitles[m[2] + 1].titre
            arr == Arr(r, HolderOf(St, target))
        IN  /\ \E k \in 1..(Len(arr) - 1) :
                  arr[k] = target /\ arr[k + 1] = moved
            /\ moved \notin Range(r.titres[target].titre)
            /\ Occurrences(r, moved) = 1

\* the first of three siblings was dropped on the second
C6_Witness ==
    /\ undoStack # <<>>
    /\ Last(undoStack).pluData.titre = <<1, 2, 3>>
    /\ pluData.titre = <<2, 1, 3>>
    /\ titres[1].titre = <<>>

\* the child of the first title was dropped on the second root title
C6_WitnessCrossParent ==
    /\ undoStack # <<>>
    /\ Last(undoStack).pluData.titre = <<1, 3>>
    /\ Last(undoStack).titres[1].titre = <<2>>
    /\ pluData.titre = <<1, 3, 2>>
    /\ titres[1].titre = <<>>

(***************************************************************************)
(* Properties of the edit mode                                             *)
(***************************************************************************)
Rejected(s) == [s EXCEPT !.toast = "error"]

\* C7: while state.isEditing is true, a drop that would reorder the titles
\* or the contents is rejected with an error toast, and the document, the
\* flat list and both history stacks are left as they are.
C7_NoReorderWhileEditing ==
    isEditing =>
        /\ \A from \in FlatIndices, to \in FlatIndices :
              from # to => DropTitreResult(St, from, to) = Rejected(St)
        /\ \A from \in ContentIndices, to \in ContentIndices :
              from # to => DropContenuResult(St, from, to) = Rejected(St)

\* a content is being edited while two titles and two contents are on
\* screen, and the last thing shown is an error
C7_Witness ==
    /\ isEditing
    /\ toast = "error"
    /\ Cardinality(FlatIndices) >= 2
    /\ Cardinality(ContentIndices) >= 2
    /\ DropTitreResult(St, 0, 1) = St
    /\ DropContenuResult(St, 0, 1) = St

\* C8: when saveContent or saveTitreMetadata reports a validation error,
\* the document is as it was before the call and both history stacks are
\* unchanged.
C8_NoPartialMutation ==
    \A r \in saveContentResults \cup saveTitreMetadataResults :
        (Bounded(r) /\ r.toast = "error") =>
            /\ DocOf(r) = DocOf(St)
            /\ r.undoStack = undoStack
            /\ r.redoStack = redoStack

(***************************************************************************)
(* A long session of title edits: the history at its full size.  Each edit *)
(* is the one the document calls for (a new root title while there is room *)
(* for one, the deletion of the first title otherwise), so that successive *)
(* snapshots differ and the stacks can grow to MAX_HISTORY_SIZE.           *)
(***************************************************************************)
historyEditResults ==
    IF pluData = Null THEN {}
    ELSE IF Len(pluData.titre) < MaxNodes
    THEN {confirmNewTitle(St, NoIndex, <<"A">>, 1)}
    ELSE {deleteTitre(St, 0, TRUE)}

HistoryNew == \E r \in createNewPLUResults : Assign(Collect(r))

HistoryEdit == \E r \in historyEditResults : Assign(Collect(r))

HistoryUndo == Assign(Collect(undo(St)))

HistoryRedo == Assign(Collect(redo(St)))

NextHistory == HistoryNew \/ HistoryEdit \/ HistoryUndo \/ HistoryRedo

SpecHistory == Init /\ [][NextHistory]_vars

\* C13: in every state that captureState, undo, redo and clearHistory can
\* reach, the undo stack (on which redo pushes too) and the redo stack hold
\* at most MAX_HISTORY_SIZE snapshots each.
C13_HistoryCapacity ==
    /\ Len(undoStack) <= MAX_HISTORY_SIZE
    /\ Len(redoStack) <= MAX_HISTORY_SIZE

\* the undo stack is full and has lost its oldest snapshot, the one of the
\* document without titles
C13_Witness ==
    /\ Len(undoStack) = MAX_HISTORY_SIZE
    /\ Len(undoStack[1].pluData.titre) > 0

\* the redo stack is full
C13_WitnessRedo == Len(redoStack) = MAX_HISTORY_SIZE

\* undos in a row from s restore the documents of snapshots, last first
RECURSIVE UndosRestore(_, _)
UndosRestore(s, snapshots) ==
    \/ snapshots = <<>>
    \/ /\ DocOf(undo(s)) = DocOf(Last(snapshots))
       /\ UndosRestore(undo(s), Front(snapshots))

\* C14: undos in a row restore the documents of the snapshots of the undo
\* stack, the most recent first, down to the oldest; a capture puts the live document on
\* top of the stack and, when that makes the stack longer than
\* MAX_HISTORY_SIZE, drops the oldest snapshot and nothing else, the others
\* keeping their order.
C14_StrictLifo ==
    /\ UndosRestore(St, undoStack)
    /\ \A r \in historyEditResults :
           r.undoStack =
               IF Len(undoStack) = MAX_HISTORY_SIZE
               THEN Append(Tail(undoStack), DeepCopy(St))
               ELSE Append(undoStack, DeepCopy(St))

\* the full stack has lost its oldest snapshot and two undos in a row have
\* then restored two documents that differ
C14_Witness ==
    /\ Len(undoStack) = MAX_HISTORY_SIZE - 2
    /\ Len(undoStack[1].pluData.titre) > 0
    /\ Len(redoStack) = 2
    /\ DocOf(St) # DocOf(redoStack[2])

(***************************************************************************)
(* Sessions with a DOCX import                                             *)
(***************************************************************************)
Line(key, value) == [text |-> "meta", key |-> key, value |-> value]

DocxLines ==
    [nom |-> Line("nom", <<"N">>),
     typeDoc |-> Line("typeDoc", "PLU"),
     idUrba |-> Line("idUrba", IdUrba(Code1, "PLU", Date2)),
     inseeCommune |-> Line("inseeCommune", <<Code1, <<" ">>>>),
     idReglement |-> Line("idReglement", <<(<<"R">>)>>),
     date |-> Line("date", Date2)]

Docx(keys) ==
    [docx |-> TRUE, html |-> [i \in 1..Len(keys) |-> DocxLines[keys[i]]]]

DocxFiles ==
    {Docx(<<"nom", "typeDoc", "idUrba", "inseeCommune">>),
     Docx(<<"nom", "typeDoc", "idUrba">>),
     Docx(<<"idReglement", "nom", "typeDoc", "idUrba">>),
     Docx(<<"nom", "typeDoc", "inseeCommune", "date">>),
     Docx(<<"typeDoc", "idUrba">>),
     Docx(<<"nom", "idUrba">>),
     [docx |-> TRUE,
      html |-> <<[text |-> "plain"], DocxLines.nom, DocxLines.typeDoc,
                 DocxLines.idUrba>>],
     [docx |-> TRUE,
      html |-> <<[text |-> "empty"], DocxLines.nom, [text |-> "hash"],
                 DocxLines.typeDoc, DocxLines.idUrba>>],
     [docx |-> FALSE, html |-> <<>>]}

importDOCXResults == {importDOCX(St, file) : file \in DocxFiles}

ImportDOCX == \E r \in importDOCXResults : Ran(r)

NextImport ==
    \/ CreateNewPLU
    \/ ImportDOCX
    \/ SaveMetadata
    \/ ClickAddTitle
    \/ Undo
    \/ Redo

SpecImport == Init /\ [][NextImport]_vars

\* the handler installed a new document
Installed(r) == r.toast = "success"

\* C15: right after createNewPLU, loadPLU of a valid file or a successful
\* DOCX import, the undo stack and the redo stack are both empty.
C15_HistoryResetWithDocument ==
    \A r \in createNewPLUResults \cup loadPLUResults \cup importDOCXResults :
        Installed(r) => r.undoStack = <<>> /\ r.redoStack = <<>>

\* C18: every document that createNewPLU, a DOCX import or saveMetadata
\* produced, also after edits, undo and redo, has
\* idReglement = idUrba + "/reglement".
C18_DocumentIdInvariant ==
    pluData # Null => pluData.idReglement = IdReglementOf(pluData.idUrba)

\* the keys of the leading block of lines #key value
LeadingKeys(html) ==
    {html[i].key : i \in {j \in 1..Len(html) :
                              /\ html[j].text = "meta"
                              /\ \A k \in 1..j : html[k].text # "plain"}}

Lacking(file) ==
    file.docx /\ {"nom", "idUrba", "typeDoc"} \ LeadingKeys(file.html) # {}

ZoneUrbaine ==
    <<"Z", "o", "n", "e", " ", "U", "r", "b", "a", "i", "n", "e", " ", "U+2160">>

\* C16: confirmNewTitle with the title Zone Urbaine U+2160 appends exactly one
\* Titre at the end of the chosen array (the root list or the child list of
\* the parent); its idTitre is the id of the parent (idReglement at the
\* root), then /zone_urbaine_i_ and the 1-based ordinal among its siblings;
\* it has idZone [porteeGenerale], idPrescription [nonConcerne], the
\* inseeCommune of the document, no content and no children.
C16_AddTitre ==
    pluData # Null =>
        \A parent \in FlatIndices \cup {NoIndex} :
            LET r == confirmNewTitle(St, parent, ZoneUrbaine, 1)
                holder == IF parent = NoIndex THEN 0
                          ELSE flatTitles[parent + 1].titre
                parentId == IF parent = NoIndex THEN pluData.idReglement
                            ELSE St.titres[holder].idTitre
                before == Arr(St, holder)
                after == Arr(r, holder)
            IN  /\ Len(after) = Len(before) + 1
                /\ SubSeq(after, 1, Len(before)) = before
                /\ DOMAIN r.titres = DOMAIN St.titres \cup {Last(after)}
                /\ r.titres[Last(after)] =
                       [idTitre |-> Append(parentId,
                            <<"z", "o", "n", "e", "_", "u", "r", "b", "a",
                              "i", "n", "e", "_", "i", "_">>
                            \o Decimal(Len(before) + 1)),
                        intitule |-> ZoneUrbaine,
                        niveau |-> 1,
                        numero |-> <<>>,
                        idZone |-> <<"porteeGenerale">>,
                        idPrescription |-> <<"nonConcerne">>,
                        inseeCommune |-> pluData.inseeCommune,
                        contenu |-> <<>>,
                        titre |-> <<>>]

\* the id after the rename: one that starts with old has old replaced by
\* new and its rest kept, any other stays
Renamed(before, after, old, new) ==
    /\ IsPrefix(old, before)
           => after = new \o SubSeq(before, Len(old) + 1, Len(before))
    /\ ~IsPrefix(old, before) => after = before
    /\ ~IsPrefix(old, after)

\* C17: after a saveMetadata that changes idReglement from old to new,
\* every idTitre and idContenu of the tree that started with old starts
\* with new, its rest unchanged, no id starts with old any more, and the
\* inseeCommune of every Titre is the new list of the document.
C17_CascadeRename ==
    \A r \in saveMetadataResults :
        (r.toast = "success" /\ r.pluData.idReglement # pluData.idReglement)
        =>  \A i \in DOMAIN St.titres :
                /\ Renamed(St.titres[i].idTitre, r.titres[i].idTitre,
                           pluData.idReglement, r.pluData.idReglement)
                /\ Len(r.titres[i].contenu) = Len(St.titres[i].contenu)
                /\ \A k \in 1..Len(St.titres[i].contenu) :
                       Renamed(St.titres[i].contenu[k].idContenu,
                               r.titres[i].contenu[k].idContenu,
                               pluData.idReglement, r.pluData.idReglement)
                /\ r.titres[i].inseeCommune = r.pluData.inseeCommune

\* the document has the id that only saveMetadata gives, and a sub-title
\* and a content carry it
C17_Witness ==
    /\ pluData # Null
    /\ pluData.idReglement = IdReglementOf(IdUrba(Code1, "PLU", Date2))
    /\ \E i \in DOMAIN St.titres :
           /\ Len(St.titres[i].idTitre) > 3
           /\ IsPrefix(pluData.idReglement, St.titres[i].idTitre)
    /\ \E i \in DOMAIN St.titres :
           /\ Len(St.titres[i].contenu) > 0
           /\ IsPrefix(pluData.idReglement,
                       St.titres[i].contenu[1].idContenu)

\* C19: exportPLU leaves the live document as it is; in the exported copy
\* the first content of every Titre has an html that starts with the node
\* h<niveau> whose text is the intitule; a Titre that had such a first
\* content keeps its contents as they were, any other gets that one content
\* more, and the export of the exported document adds nothing.
C19_ExportHeadingPrefix ==
    pluData # Null =>
        LET x == exportPLU(St)
            again == addIntituleAsFirstContent(x.json.titres,
                         x.json.pluData.titre, x.json.pluData.idReglement)
        IN  /\ DocOf(x.s) = DocOf(St)
            /\ x.json.pluData = pluData
            /\ DOMAIN x.json.titres = DOMAIN St.titres
            /\ again = x.json.titres
            /\ \A i \in DOMAIN St.titres :
                   LET old == St.titres[i]
                       new == x.json.titres[i]
                       html(c) == [k \in 1..Len(c) |-> c[k].html]
                   IN  /\ Len(new.contenu) > 0
                       /\ HasIntitule(new.contenu[1], old)
                       /\ [new EXCEPT !.contenu = old.contenu] = old
                       /\ IF Len(old.contenu) > 0
                             /\ HasIntitule(old.contenu[1], old)
                          THEN new.contenu = old.contenu
                          ELSE Tail(html(new.contenu)) = html(old.contenu)

\* the session as an export leaves it: a title with all its contents gets
\* one more in the copy, a title without content gets its first
C19_Witness ==
    /\ pluData # Null
    /\ exportPLU(St).s = St
    /\ \E i, j \in DOMAIN St.titres :
           /\ Len(St.titres[i].contenu) = MaxContenu
           /\ Len(exportPLU(St).json.titres[i].contenu) = MaxContenu + 1
           /\ Len(St.titres[j].contenu) = 0
           /\ Len(exportPLU(St).json.titres[j].contenu) = 1

(***************************************************************************)
(* The converters, one after the other: a content is saved from the editor *)
(* (tiptapToHtmlArray) and opened in it again (htmlArrayToTipTap).         *)
(***************************************************************************)
Marked(s, marks) == [type |-> "text", text |-> s, marks |-> marks]
Heading(level, inl) ==
    [type |-> "heading", attrs |-> [level |-> level], content |-> inl]
HardBreak == [type |-> "hardBreak"]

ConvertBlocks ==
    {Pa, EmptyP,
     P(<<Text(<<"a">>), Text(<<"b">>)>>),
     P(<<Text(<<"a">>), HardBreak, Text(<<"b">>)>>),
     P(<<Bold(<<"b">>)>>),
     P(<<Text(<<"a">>), Marked(<<"b">>, <<[type |-> "italic"]>>)>>),
     P(<<Marked(<<"b">>, <<[type |-> "underline"],
                           [type |-> "link", attrs |-> [href |-> <<"u">>]]>>)>>),
     Heading(1, <<Text(<<"a">>)>>),
     Heading(2, <<Text(<<"a">>), Text(<<"b">>)>>)}

ConvertInputs ==
    {Doc(q) : q \in UNION {[1..n -> ConvertBlocks] : n \in 0..MaxBlocks}}

InitConvert ==
    /\ pluData = Null
    /\ titres = <<>>
    /\ currentTitre = NoTitre
    /\ currentContenu = NoContenu
    /\ flatTitles = <<>>
    /\ editor = FALSE
    /\ isEditing = FALSE
    /\ editorScreen = FALSE
    /\ undoStack = <<>>
    /\ redoStack = <<>>
    /\ isRestoring = FALSE
    /\ toast = "none"
    /\ tiptapDoc \in ConvertInputs
    /\ docParts = <<>>
    /\ splitDone = FALSE
    /\ htmlArray = <<>>
    /\ backDoc = Null
    /\ convStep = "doc"
    /\ localStorage = {}
    /\ refs = [live |-> 0, undo |-> <<>>, redo |-> <<>>]

ToHtmlArray ==
    /\ convStep = "doc"
    /\ htmlArray' = tiptapToHtmlArray(tiptapDoc)
    /\ convStep' = "html"
    /\ UNCHANGED <<tiptapDoc, docParts, splitDone, backDoc, localStorage, refs>>
    /\ UNCHANGED editorVars

ToTipTap ==
    /\ convStep = "html"
    /\ backDoc' = htmlArrayToTipTap(htmlArray)
    /\ convStep' = "tiptap"
    /\ UNCHANGED <<tiptapDoc, docParts, splitDone, htmlArray, localStorage, refs>>
    /\ UNCHANGED editorVars

NextConvert == ToHtmlArray \/ ToTipTap

SpecConvert == InitConvert /\ [][NextConvert]_vars

\* the runs of a block with neighbouring runs without marks joined into
\* one and runs of no text and no marks dropped
RECURSIVE JoinRuns(_)
JoinRuns(content) ==
    IF content = <<>> THEN <<>>
    ELSE LET node == Head(content)
             rest == JoinRuns(Tail(content))
             plain(n) == n.type = "text" /\ ~HasMarks(n)
         IN  IF plain(node) /\ NodeText(node) = <<>> THEN rest
             ELSE IF plain(node) /\ rest # <<>> /\ plain(Head(rest))
             THEN <<Text(NodeText(node) \o Head(rest).text)>> \o Tail(rest)
             ELSE IF plain(node) THEN <<Text(NodeText(node))>> \o rest
             ELSE <<node>> \o rest

NormalDoc(doc) ==
    [i \in 1..Len(doc.content) |->
        LET block == doc.content[i]
            runs == IF HasContent(block) THEN block.content ELSE <<>>
        IN  [k \in DOMAIN block \cup {"content"} |->
                IF k = "content" THEN JoinRuns(runs) ELSE block[k]]]

\* C12: for a document of paragraphs and headings whose runs are plain or
\* carry bold, italic, underline or link marks, with line breaks, the
\* document that htmlArrayToTipTap builds from tiptapToHtmlArray(x) is x,
\* up to the joining of neighbouring runs without marks: a run with marks
\* comes back with its text and its marks.
C12_ConverterRoundTrip ==
    convStep = "tiptap" => NormalDoc(backDoc) = NormalDoc(tiptapDoc)

(***************************************************************************)
(* The converters on documents and arrays that are not well formed         *)
(***************************************************************************)
MaxEntries == 2

\* blocks of a document: a null entry, an object without a type, and
\* paragraphs and headings with and without a null inline node
MalformedBlocks ==
    {Null, [text |-> <<"a">>], Pa, P(<<Text(<<"a">>), Null>>),
     Heading(1, <<Null>>)}

MalformedDocs ==
    {Null, [type |-> "doc"]}
    \cup {Doc(q) : q \in UNION {[1..n -> MalformedBlocks] :
                                    n \in 0..MaxEntries}}

\* elements of an html array: a null entry, an object without a tag, a
\* string, and paragraphs with and without a null child
MalformedElements ==
    {Null, [text |-> <<"a">>], [str |-> <<"a">>],
     [tag |-> "p", text |-> <<"a">>],
     [tag |-> "p", children |-> <<[str |-> <<"a">>], Null>>]}

MalformedValues ==
    {JsNull, JsObject([tag |-> "p"])}
    \cup {JsArray(q) : q \in UNION {[1..n -> MalformedElements] :
                                        n \in 0..MaxEntries}}

InitMalformed ==
    /\ pluData = Null
    /\ titres = <<>>
    /\ currentTitre = NoTitre
    /\ currentContenu = NoContenu
    /\ flatTitles = <<>>
    /\ editor = FALSE
    /\ isEditing = FALSE
    /\ editorScreen = FALSE
    /\ undoStack = <<>>
    /\ redoStack = <<>>
    /\ isRestoring = FALSE
    /\ toast = "none"
    /\ tiptapDoc \in MalformedDocs
    /\ docParts = <<>>
    /\ splitDone = FALSE
    /\ htmlArray \in MalformedValues
    /\ backDoc = Null
    /\ convStep = "doc"
    /\ localStorage = {}
    /\ refs = [live |-> 0, undo |-> <<>>, redo |-> <<>>]

\* htmlArrayToTipTap(htmlArray): backDoc is the outcome of the call
CallToTipTap ==
    /\ convStep = "doc"
    /\ backDoc' = htmlArrayToTipTapCall(htmlArray)
    /\ convStep' = "tiptap"
    /\ UNCHANGED <<tiptapDoc, docParts, splitDone, htmlArray, localStorage, refs>>
    /\ UNCHANGED editorVars

\* tiptapToHtmlArray(tiptapDoc): htmlArray is the outcome of the call
CallToHtmlArray ==
    /\ convStep = "tiptap"
    /\ htmlArray' = tiptapToHtmlArrayCall(tiptapDoc)
    /\ convStep' = "html"
    /\ UNCHANGED <<tiptapDoc, docParts, splitDone, backDoc, localStorage, refs>>
    /\ UNCHANGED editorVars

NextMalformed == CallToTipTap \/ CallToHtmlArray

SpecMalformed == InitMalformed /\ [][NextMalformed]_vars

\* C21: no conversion raises.  htmlArrayToTipTap returns a document
\* without content for null and for a value that is not an array, and
\* returns a document for an array with a null entry, an object without a
\* tag or a paragraph with a null child; tiptapToHtmlArray returns [] for a
\* null document and for a document without content, and returns an array
\* for a document with a null block, a block without a type or a null
\* inline node.
C21_ConversionNeverThrows ==
    /\ convStep = "tiptap" =>
          /\ Returns(backDoc)
          /\ backDoc.value.type = "doc"
          /\ htmlArray.kind # "array" => backDoc.value = Doc(<<>>)
    /\ convStep = "html" =>
          /\ Returns(htmlArray)
          /\ (tiptapDoc = Null => htmlArray.value = <<>>)
          /\ (tiptapDoc # Null /\ ~HasContent(tiptapDoc)
                 => htmlArray.value = <<>>)

\* an array with a null entry was converted, and so was a document with a
\* null inline node
C21_Witness ==
    /\ convStep = "tiptap"
    /\ htmlArray.kind = "array"
    /\ \E i \in 1..Len(htmlArray.items) : htmlArray.items[i] = Null
    /\ Returns(backDoc)
    /\ tiptapDoc # Null
    /\ HasContent(tiptapDoc)
    /\ \E i \in 1..Len(tiptapDoc.content) : NodeThrows(tiptapDoc.content[i])
    /\ Returns(tiptapToHtmlArrayCall(tiptapDoc))

(***************************************************************************)
(* Sessions that import DOCX files with images                             *)
(***************************************************************************)
\* the images mammoth hands over for a file with n images
DocxImages(n, buffer) ==
    [i \in 1..n |->
        [buffer |-> buffer, contentType |-> "image/png",
         filename |-> <<"image_">> \o Decimal(i) \o <<".png">>]]

ImageFiles ==
    {[docx |-> TRUE,
      html |-> <<DocxLines.nom, DocxLines.typeDoc, Line("idUrba", idUrba)>>,
      images |-> DocxImages(n, buffer)] :
        idUrba \in {IdUrba(Code1, "PLU", Date2),
                    IdUrba(<<"1", "4">>, "PLU", Date2)},
        n \in 1..(MaxStored + 1), buffer \in {<<"x">>, <<"y">>}}
    \cup {[docx |-> FALSE, html |-> <<>>, images |-> <<>>]}

importDOCXImagesResults ==
    {importDOCXImages(St, localStorage, file, faultAt) :
        file \in ImageFiles, faultAt \in 0..1}

ImportDOCXImages ==
    \E r \in importDOCXImagesResults :
        /\ Bounded(r.s)
        /\ AssignEditor(Collect(r.s))
        /\ localStorage' = r.store
        /\ UNCHANGED <<tiptapDoc, docParts, splitDone, htmlArray, backDoc,
                       convStep, refs>>

NextImages == ImportDOCXImages

SpecImages == Init /\ [][NextImages]_vars

\* C22: when the store has no room for an image, storeImage raises an
\* error that differs from the one it raises for another failure of the
\* store and leaves every image of the store as it was; an import during
\* which an image found no room ends with an error shown to the user, not
\* with the message of success.
C22_QuotaFailure ==
    /\ \A file \in ImageFiles : \A i \in 1..Len(file.images) :
           LET image == file.images[i]
               quota == storeImage(localStorage, <<"u">>, image.filename,
                                   image.buffer, image.contentType, "none")
               other == storeImage(localStorage, <<"u">>, image.filename,
                                   image.buffer, image.contentType,
                                   "SecurityError")
           IN  ~Returns(quota) =>
                   /\ quota.thrown # other.thrown
                   /\ quota.store = localStorage
                   /\ \A item \in localStorage :
                          getItem(quota.store, item.key) = item.value
    /\ \A r \in importDOCXImagesResults :
           (\E i \in 1..Len(r.console) : r.console[i].error = QuotaMessage)
               => r.s.toast = "error"

(***************************************************************************)
(* The flat list of the tree                                               *)
(***************************************************************************)
\* the paths of at most MaxNodes indexes
Paths == UNION {[1..n -> 0..(MaxNodes - 1)] : n \in 1..MaxNodes}

\* path leads from the array of holder to a titre
RECURSIVE ValidFrom(_, _, _)
ValidFrom(s, holder, path) ==
    \/ path = <<>>
    \/ /\ Head(path) + 1 \in 1..Len(Arr(s, holder))
       /\ ValidFrom(s, Arr(s, holder)[Head(path) + 1], Tail(path))

TreePaths(s) ==
    IF s.pluData = Null THEN {}
    ELSE {path \in Paths : ValidFrom(s, 0, path)}

IsProperPrefix(p, q) == Len(p) < Len(q) /\ IsPrefix(p, q)

\* C23: flattenTitres gives one entry {titre, path} per titre of the tree,
\* the path being the indexes that lead from pluData.titre to the titre;
\* the entry of a titre comes before those of its descendants, the entries
\* of siblings come in the order of their array, and no two entries have
\* the same path.
C23_FlattenPreOrder ==
    LET flat == flattenTitres(St.titres, RootIds(St), <<>>)
        at(path) == {i \in 1..Len(flat) : flat[i].path = path}
    IN  /\ \A path \in TreePaths(St) : Cardinality(at(path)) = 1
        /\ \A id \in DOMAIN St.titres :
               Cardinality({i \in 1..Len(flat) : flat[i].titre = id}) = 1
        /\ \A i \in 1..Len(flat) :
               /\ flat[i].path \in TreePaths(St)
               /\ flat[i].titre = Walk(St, 0, flat[i].path)
        /\ \A i, j \in 1..Len(flat) :
               /\ IsProperPrefix(flat[i].path, flat[j].path) => i < j
               /\ (/\ Front(flat[i].path) = Front(flat[j].path)
                   /\ Last(flat[i].path) < Last(flat[j].path)) => i < j
               /\ i # j => flat[i].path # flat[j].path

\* the flat list on screen is that of a tree with a titre, its child and
\* its next sibling
C23_Witness ==
    /\ flatTitles = flattenTitres(St.titres, RootIds(St), <<>>)
    /\ Len(flatTitles) = 3
    /\ flatTitles[1].path = <<0>>
    /\ flatTitles[2].path = <<0, 0>>
    /\ flatTitles[3].path = <<1>>

\* the titres below the titre id, through at most depth arrays
RECURSIVE Below(_, _, _)
Below(s, id, depth) ==
    IF depth = 0 THEN {}
    ELSE LET children == Range(s.titres[id].titre) \cap DOMAIN s.titres
         IN  children \cup UNION {Below(s, child, depth - 1) :
                                     child \in children}

\* C24: in every state of a session (titles added, moved, deleted, undo,
\* redo), every Titre that the root of the document reaches is held at one
\* place of one array, and is not below itself.
C24_SingleOwnership ==
    \A id \in DOMAIN St.titres :
        /\ Occurrences(St, id) = 1
        /\ id \notin Below(St, id, MaxNodes + 1)

\* a move changed the arrays of a document of three titres on two levels
C24_Witness ==
    /\ undoStack # <<>>
    /\ toast = "success"
    /\ Cardinality(DOMAIN St.titres) = 3
    /\ \E id \in DOMAIN St.titres : St.titres[id].titre # <<>>
    /\ DOMAIN Last(undoStack).titres = DOMAIN St.titres
    /\ \A id \in DOMAIN St.titres :
           Last(undoStack).titres[id].idTitre = St.titres[id].idTitre
    /\ Last(undoStack).pluData.titre # St.pluData.titre

(***************************************************************************)
(* Properties of the selection                                             *)
(***************************************************************************)
\* C25: in every state of a session (titles selected, added, moved,
\* deleted, undo, redo, documents created and loaded), state.currentTitre is
\* null or a Titre that the root of the live document reaches, and
\* state.currentContenu is null or an entry of the content list of that
\* Titre.
C25_SelectionLive ==
    /\ St.currentTitre.kind # "null" =>
          /\ St.currentTitre.kind = "live"
          /\ St.currentTitre.id \in Reach(St)
    /\ St.currentContenu.kind # "null" =>
          /\ St.currentContenu.kind = "at"
          /\ St.currentTitre.kind = "live"
          /\ St.currentContenu.index + 1
                 \in 1..Len(St.titres[St.currentTitre.id].contenu)

\* C26: in every state of a session of titles added and deleted, no two
\* Titre nodes of the live document have the same idTitre.
C26_UniqueTitleIds ==
    \A a, b \in DOMAIN St.titres :
        a # b => St.titres[a].idTitre # St.titres[b].idTitre

\* C27: in every state of a session (titles added, moved, deleted, undo,
\* redo, documents created and loaded), state.flatTitles is the pre-order
\* flat list of the live tree, the empty list when the tree is empty.
C27_FlatListFresh == St.flatTitles = FlatOf(St)

(***************************************************************************)
(* The objects behind the snapshots.  JSON.parse(JSON.stringify(x)) makes  *)
(* a new object, an assignment hands over a reference to the same object.  *)
(* refs.live is the object state.pluData points to (0 for null), refs.undo *)
(* and refs.redo are the objects the pluData of the snapshots of the two   *)
(* stacks point to.  An object is a number; a new object takes the first   *)
(* number that no reference holds.                                         *)
(***************************************************************************)
Held(h) == {h.live} \cup Range(h.undo) \cup Range(h.redo)

NewObject(h) == CHOOSE n \in 1..(Cardinality(Held(h)) + 1) : n \notin Held(h)

\* captureState pushing state.pluData itself
captureStateShared(s, h) ==
    IF s.isRestoring THEN h
    ELSE IF s.pluData = Null THEN h
    ELSE LET pushed == Push(h.undo, h.live)
         IN  [h EXCEPT !.undo = IF Len(pushed) > MAX_HISTORY_SIZE
                                THEN Tail(pushed) ELSE pushed,
                       !.redo = <<>>]

\* captureState in the session s: the references after it
captureStateRefs(s, h) ==
    IF s.isRestoring THEN h
    ELSE IF s.pluData = Null THEN h
    ELSE LET pushed == Push(h.undo, NewObject(h))
         IN  [h EXCEPT !.undo = IF Len(pushed) > MAX_HISTORY_SIZE
                                THEN Tail(pushed) ELSE pushed,
                       !.redo = <<>>]

undoRefs(s, h) ==
    IF Len(s.undoStack) = 0 THEN h
    ELSE [live |-> Last(h.undo),
          undo |-> Front(h.undo),
          redo |-> Push(h.redo, NewObject(h))]

redoRefs(s, h) ==
    IF Len(s.redoStack) = 0 THEN h
    ELSE [live |-> Last(h.redo),
          undo |-> Push(h.undo, NewObject(h)),
          redo |-> Front(h.redo)]

\* createNewPLU: clearHistory, then setPluData of a new object
createNewPLURefs(h) ==
    LET cleared == [h EXCEPT !.undo = <<>>, !.redo = <<>>]
    IN  [cleared EXCEPT !.live = NewObject(cleared)]

AssignSnapshots(r, h) ==
    /\ Len(r.undoStack) + Len(r.redoStack) <= MaxSnapshots
    /\ AssignEditor(Collect(r))
    /\ refs' = h
    /\ UNCHANGED <<tiptapDoc, docParts, splitDone, htmlArray, backDoc,
                   convStep, localStorage>>

SnapshotNew ==
    \E r \in createNewPLUResults :
        AssignSnapshots(r, IF r.toast = "error" THEN refs
                           ELSE createNewPLURefs(refs))

\* confirmNewTitle and deleteTitre capture the state, then change the live
\* document in place
SnapshotEdit ==
    \E r \in historyEditResults :
        AssignSnapshots(r, captureStateRefs(St, refs))

SnapshotUndo == AssignSnapshots(undo(St), undoRefs(St, refs))

SnapshotRedo == AssignSnapshots(redo(St), redoRefs(St, refs))

NextSnapshots == SnapshotNew \/ SnapshotEdit \/ SnapshotUndo \/ SnapshotRedo

SpecSnapshots == Init /\ [][NextSnapshots]_vars

\* C28: every snapshot of the undo stack and of the redo stack holds an
\* object of its own: no two snapshots share their pluData, and none shares
\* it with the live document, also after undo or redo made the pluData of
\* a snapshot the live document.  An edit of the live document leaves the
\* snapshots that stay on the undo stack as they were.
C28_SnapshotIndependence ==
    /\ Len(refs.undo) = Len(undoStack)
    /\ Len(refs.redo) = Len(redoStack)
    /\ refs.live \notin Range(refs.undo) \cup Range(refs.redo)
    /\ Cardinality(Range(refs.undo) \cup Range(refs.redo))
          = Len(refs.undo) + Len(refs.redo)
    /\ \A r \in historyEditResults :
           Front(r.undoStack) = IF Len(undoStack) = MAX_HISTORY_SIZE
                                THEN Tail(undoStack) ELSE undoStack

\* undo has made the pluData of a snapshot the live document, with
\* snapshots on both stacks
C28_Witness ==
    /\ toast = "success"
    /\ Len(refs.undo) > 0
    /\ Len(refs.redo) > 1
    /\ refs.live > 2

(***************************************************************************)
(* The edit mode as a state machine                                        *)
(***************************************************************************)
\* the handlers that take the session as it is and are neither addContent,
\* editContent, cancelEditContent nor saveContent
OtherResults ==
    createNewPLUResults \cup loadPLUResults \cup saveMetadataResults
    \cup dropTitreResults \cup dropContenuResults \cup deleteContentResults
    \cup saveTitreMetadataResults
    \cup {undo(St), redo(St), exportPLU(St).s}

\* what each handler does to state.isEditing in the current state
EditSteps ==
    /\ \A r \in OtherResults : r.isEditing = isEditing
    /\ \A s \in Switched :
           /\ \A index \in FlatIndices :
                  /\ selectTitre(s, index).isEditing = s.isEditing
                  /\ \A confirmed \in BOOLEAN :
                         deleteTitre(s, index, confirmed).isEditing
                             = s.isEditing
           /\ pluData # Null =>
                  \A parent \in FlatIndices \cup {NoIndex}, t \in NewTitles :
                      confirmNewTitle(s, parent, t.intitule, t.niveau).isEditing
                          = s.isEditing
    /\ addContent(St).isEditing = (HasTitre(St) \/ isEditing)
    /\ \A r \in editContentResults : r.isEditing
    /\ ~cancelEditContent(St).isEditing
    /\ \A form \in TitreForms, doc \in EditorDocs :
           LET r == saveContent(St, form, doc)
           IN  r.isEditing = (r.toast # "success" /\ isEditing)

\* C29: state.isEditing is false when the session starts.  addContent
\* with a selected titre and editContent set it, cancelEditContent and a
\* saveContent that succeeds reset it, a saveContent that fails and every
\* other handler leave it as it is.
C29_EditStateMachine == ~isEditing /\ []EditSteps

\* an edit was started (the editor exists) and has ended, with content saved
C29_Witness ==
    /\ ~isEditing
    /\ editor
    /\ toast = "success"
    /\ HasTitre(St)
    /\ Len(CurObj(St).contenu) > 0
    /\ undoStack # <<>>

\* C30: a click handler of the tree (select, add, delete) that asked to
\* save or to abandon the edit goes on with state.isEditing false, and
\* state.isEditing is false after createNewPLU and after loadPLU of a valid
\* file.
C30_NoEditInFlight ==
    /\ isEditing => \A s \in Switched : ~s.isEditing
    /\ \A r \in createNewPLUResults \cup loadPLUResults :
           Installed(r) => ~r.isEditing

(***************************************************************************)
(* Saving the editor into the content list                                 *)
(***************************************************************************)
\* an empty code block, as the editor holds it: the node has no content
CodeBlock == [type |-> "codeBlock"]

\* the documents the editor can hold at a save
SaveDocs == EditorDocs \cup {Doc(<<CodeBlock>>), Doc(<<Pa, CodeBlock>>)}

Htmls(contenus) == [i \in 1..Len(contenus) |-> contenus[i].html]

\* the html arrays of the non-empty parts of the document, in order
BuiltHtmls(doc) ==
    LET parts == splitTipTapBySeparator(doc)
    IN  SelectSeq([i \in 1..Len(parts) |-> tiptapToHtmlArray(parts[i])],
                  LAMBDA h : Len(h) # 0)

\* new is old with the entry at the 0-based index replaced by built
ReplacedAt(old, new, index, built) ==
    /\ index + 1 \in 1..Len(old)
    /\ new = SubSeq(old, 1, index) \o built \o SubSeq(old, index + 2, Len(old))

\* C31: a successful saveContent builds k >= 1 contents from the non-empty
\* parts of the editor document, in order; while a content is edited they
\* replace exactly that content at its position, in add mode they are
\* appended, and every other content keeps its html and its relative order.
C31_SaveReplacesInPlace ==
    (editorScreen /\ HasTitre(St)) =>
        \A form \in TitreForms, doc \in SaveDocs :
            LET r == saveContent(St, form, doc)
                old == Htmls(CurObj(St).contenu)
                new == Htmls(CurObj(r).contenu)
                built == BuiltHtmls(doc)
            IN  (r.toast = "success" /\ HasTitre(r)) =>
                    /\ Len(built) >= 1
                    /\ IF St.currentContenu.kind = "null"
                       THEN new = old \o built
                       ELSE ReplacedAt(old, new, IndexOfCurrent(St), built)

(***************************************************************************)
(* The re-entrancy flag of undo and redo                                   *)
(* Sessions in which the try of undo and redo can raise at each of its     *)
(* places; the stacks hold MaxRestore entries at most.                     *)
(***************************************************************************)
MaxRestore == 6

AssignRestore(r) ==
    /\ Len(r.undoStack) + Len(r.redoStack) <= MaxRestore
    /\ Assign(Collect(r))

RestoreNew == \E r \in createNewPLUResults : AssignRestore(r)

RestoreEdit == \E r \in historyEditResults : AssignRestore(r)

RestoreUndo == \E fault \in Faults : AssignRestore(undoCall(St, fault))

RestoreRedo == \E fault \in Faults : AssignRestore(redoCall(St, fault))

NextRestore == RestoreNew \/ RestoreEdit \/ RestoreUndo \/ RestoreRedo

SpecRestore == Init /\ [][NextRestore]_vars

\* the snapshots of both stacks together
Entries(s) == Len(s.undoStack) + Len(s.redoStack)

\* C32: isRestoring is false outside undo and redo: it is false after every
\* undo or redo, whether it succeeds, rejects an empty stack or raises
\* inside; so a captureState with a loaded document records a snapshot of it,
\* and an undo or redo only moves one entry from a stack to the other, it
\* adds none and clears no stack as captureState would.
C32_RestoreGuard ==
    /\ ~isRestoring
    /\ pluData # Null =>
           LET c == captureState(St, "Action")
           IN  /\ Len(c.undoStack) > 0
               /\ Last(c.undoStack) = DeepCopy(St)
               /\ c.redoStack = <<>>
    /\ \A fault \in Faults :
           LET u == undoCall(St, fault)
               r == redoCall(St, fault)
           IN  /\ ~u.isRestoring
               /\ ~r.isRestoring
               /\ Entries(u) = Entries(St)
               /\ Entries(r) = Entries(St)
               /\ IsPrefix(u.undoStack, undoStack)
               /\ IsPrefix(r.redoStack, redoStack)

\* an undo that raised inside has run, with a document loaded
C32_Witness ==
    /\ toast = "error"
    /\ pluData # Null
    /\ Len(redoStack) > 0
    /\ Len(undoStack) > 0
    /\ flatTitles # FlatOf(St)

(***************************************************************************)
(* The titles of a DOCX (storage.js)                                       *)
(* The nodes after the metadata block are elements: a heading h1..h6 or a  *)
(* paragraph with a text.  A Titre of the result holds its children in its *)
(* field titre.                                                            *)
(***************************************************************************)
MaxHeadings == 3
MaxLevel == 3

\* the level of a heading element, 0 for any other element
NodeLevel(node) ==
    IF node.tagName \in HeadingTags THEN LevelOf(node.tagName) ELSE 0

\* convertNodeToHtmlObject of a paragraph that holds one text
convertNodeToHtmlObject(node) ==
    IF node.tagName # "p" THEN Null
    ELSE IF Trim(node.textContent) = <<>> THEN Null
    ELSE [tag |-> "p", text |-> Trim(node.textContent)]

\* the content list of the title after parseContentFromHTMLNodes
parseContentFromHTMLNodes(nodes, title, baseId, titleLevel) ==
    LET kept == SelectSeq(nodes, LAMBDA n : ~(NodeLevel(n) > titleLevel))
        htmlArrayOf == SelectSeq([i \in 1..Len(kept) |->
                                     convertNodeToHtmlObject(kept[i])],
                                 LAMBDA h : h # Null)
    IN  IF Len(htmlArrayOf) > 0
        THEN Append(title.contenu,
                    [idContenu |-> Append(baseId, <<"contenu">> \o Pad2(1)),
                     idZone |-> title.idZone,
                     idPrescription |-> title.idPrescription,
                     html |-> htmlArrayOf])
        ELSE title.contenu

\* the first place from i on where test holds, Len(nodes) + 1 when none
FirstFrom(nodes, i, test(_)) ==
    LET hits == {k \in i..Len(nodes) : test(nodes[k])}
    IN  IF hits = {} THEN Len(nodes) + 1
        ELSE CHOOSE k \in hits : \A m \in hits : k <= m

\* the target array after parseTitlesFromHTMLNodes; TitlesLoop is its
\* while loop from the place i
RECURSIVE TitlesLoop(_, _, _, _, _)
parseTitlesFromHTMLNodes(nodes, targetArray, pluDataRef, currentLevel) ==
    TitlesLoop(nodes, 1, targetArray, pluDataRef, currentLevel)

TitlesLoop(nodes, i, targetArray, pluDataRef, currentLevel) ==
    IF i > Len(nodes) THEN targetArray
    ELSE
    LET node == nodes[i]
        headingLevel == NodeLevel(node)
        headingText == Trim(node.textContent)
        j == FirstFrom(nodes, i + 1,
                 LAMBDA n : NodeLevel(n) > 0 /\ NodeLevel(n) <= currentLevel)
        allContentNodes == SubSeq(nodes, i + 1, j - 1)
        titleId == TitreId(pluDataRef.idReglement, Slug(headingText),
                           Len(targetArray) + 1)
        newTitle == [idTitre |-> titleId,
                     intitule |-> headingText,
                     niveau |-> headingLevel,
                     numero |-> <<>>,
                     idZone |-> <<"porteeGenerale">>,
                     idPrescription |-> <<"nonConcerne">>,
                     inseeCommune |-> pluDataRef.inseeCommune,
                     contenu |-> <<>>,
                     titre |-> <<>>]
        subLevels == {NodeLevel(allContentNodes[k]) :
                         k \in 1..Len(allContentNodes)}
                     \cap ((currentLevel + 1)..6)
        firstSubLevel ==
            IF subLevels = {} THEN 7
            ELSE CHOOSE l \in subLevels : \A m \in subLevels : l <= m
        start == FirstFrom(allContentNodes, 1,
                           LAMBDA n : NodeLevel(n) = firstSubLevel)
        directContentNodes == SubSeq(allContentNodes, 1, start - 1)
        subSectionNodes ==
            SubSeq(allContentNodes, start, Len(allContentNodes))
        contenu == IF Len(directContentNodes) > 0
                   THEN parseContentFromHTMLNodes(directContentNodes,
                            newTitle, titleId, headingLevel)
                   ELSE newTitle.contenu
        titre == IF Len(subSectionNodes) > 0 /\ firstSubLevel < 7
                 THEN parseTitlesFromHTMLNodes(subSectionNodes,
                          newTitle.titre, pluDataRef, firstSubLevel)
                 ELSE newTitle.titre
    IN  IF headingLevel > 0
        THEN IF headingLevel = currentLevel
             THEN TitlesLoop(nodes, j,
                      Append(targetArray,
                             [newTitle EXCEPT !.contenu = contenu,
                                              !.titre = titre]),
                      pluDataRef, currentLevel)
             ELSE IF headingLevel < currentLevel THEN targetArray
             ELSE TitlesLoop(nodes, i + 1, targetArray, pluDataRef,
                             currentLevel)
        ELSE TitlesLoop(nodes, i + 1, targetArray, pluDataRef, currentLevel)

\* the elements of a DOCX whose i-th element is the heading of level
\* levels[i], or a paragraph where levels[i] is 0; the text of an element
\* tells its place
ContentNodes(levels) ==
    [i \in 1..Len(levels) |->
        IF levels[i] = 0
        THEN [tagName |-> "p", textContent |-> <<"x", Digit(i)>>]
        ELSE [tagName |-> HTag(levels[i]),
              textContent |-> <<"t", Digit(i)>>]]

LevelSeqs ==
    UNION {[1..n -> 0..MaxLevel] : n \in 0..MaxHeadings}

\* the document parseDOCXHTML builds from the metadata block
DocxPlu ==
    [idReglement |-> IdReglementOf(IdUrba(Code1, "PLU", Date2)),
     inseeCommune |-> <<Code1>>]

\* an editor in which nothing is loaded
Idle ==
    /\ pluData = Null
    /\ titres = <<>>
    /\ currentTitre = NoTitre
    /\ currentContenu = NoContenu
    /\ flatTitles = <<>>
    /\ editor = FALSE
    /\ isEditing = FALSE
    /\ editorScreen = FALSE
    /\ undoStack = <<>>
    /\ redoStack = <<>>
    /\ isRestoring = FALSE
    /\ toast = "none"
    /\ localStorage = {}
    /\ refs = [live |-> 0, undo |-> <<>>, redo |-> <<>>]

\* htmlArray holds the content nodes, backDoc the titles parsed from them
InitHeadings ==
    /\ Idle
    /\ tiptapDoc = Null
    /\ docParts = <<>>
    /\ splitDone = FALSE
    /\ htmlArray \in {ContentNodes(levels) : levels \in LevelSeqs}
    /\ backDoc = Null
    /\ convStep = "nodes"

ParseTitles ==
    /\ convStep = "nodes"
    /\ backDoc' = parseTitlesFromHTMLNodes(htmlArray, <<>>, DocxPlu, 1)
    /\ convStep' = "titles"
    /\ UNCHANGED <<tiptapDoc, docParts, splitDone, htmlArray, localStorage,
                   refs>>
    /\ UNCHANGED editorVars

NextHeadings == ParseTitles

SpecHeadings == InitHeadings /\ [][NextHeadings]_vars

\* the titles of a tree in pre-order, each with the text of its parent
\* (the empty text at the root)
RECURSIVE Listing(_, _)
Listing(list, parent) ==
    IF list = <<>> THEN <<>>
    ELSE <<[intitule |-> Head(list).intitule,
            niveau |-> Head(list).niveau,
            parent |-> parent]>>
         \o Listing(Head(list).titre, Head(list).intitule)
         \o Listing(Tail(list), parent)

\* the text of the nearest heading before the place k whose level is
\* strictly lower than that of nodes[k], the empty text when there is none
ParentText(nodes, k) ==
    LET lower == {j \in 1..(k - 1) :
                     /\ NodeLevel(nodes[j]) > 0
                     /\ NodeLevel(nodes[j]) < NodeLevel(nodes[k])}
    IN  IF lower = {} THEN <<>>
        ELSE nodes[CHOOSE j \in lower : \A m \in lower : m <= j].textContent

\* one entry per heading, in document order
ExpectedListing(nodes) ==
    LET places == SelectSeq([k \in 1..Len(nodes) |-> k],
                            LAMBDA k : NodeLevel(nodes[k]) > 0)
    IN  [n \in 1..Len(places) |->
            [intitule |-> nodes[places[n]].textContent,
             niveau |-> NodeLevel(nodes[places[n]]),
             parent |-> ParentText(nodes, places[n])]]

\* C33: every heading after the metadata block yields exactly one Titre,
\* with niveau its heading level, child of the nearest preceding heading of
\* strictly lower level (at the root when there is none), siblings in
\* document order: no heading is dropped.
C33_HeadingNesting ==
    convStep = "titles" => Listing(backDoc, <<>>) = ExpectedListing(htmlArray)

(***************************************************************************)
(* Deleting a title                                                        *)
(***************************************************************************)
\* the titre id and all the titres below it
Subtree(s, id) == {id} \cup Below(s, id, MaxNodes + 1)

\* r is s without the titre id and its subtree: the nodes left are those
\* outside the subtree, each array holds what it held, in order, and no
\* other field changed
Removed(s, r, id) ==
    /\ Reach(r) = Reach(s) \ Subtree(s, id)
    /\ Cardinality(Reach(r)) =
           Cardinality(Reach(s)) - Cardinality(Subtree(s, id))
    /\ \A h \in {0} \cup Reach(r) :
           Arr(r, h) = SelectSeq(Arr(s, h), LAMBDA x : x # id)
    /\ \A i \in Reach(r) :
           r.titres[i] = [s.titres[i] EXCEPT !.titre = Arr(r, i)]
    /\ [r.pluData EXCEPT !.titre = s.pluData.titre] = s.pluData

\* C34: a confirmed deleteTitre(flatIndex) whose index addresses a node of
\* the tree removes exactly that node and its subtree from its parent array,
\* every other node keeping its parent and its relative order; when the
\* user declines or the index addresses no node, the document and both
\* history stacks are unchanged.
C34_DeleteTitre ==
    pluData # Null =>
        \A flatIndex \in -1..Len(flatTitles), confirmed \in BOOLEAN :
            LET r == deleteTitre(St, flatIndex, confirmed)
                flat == FlatOf(St)
            IN  IF confirmed /\ flatIndex + 1 \in 1..Len(flat)
                THEN Removed(St, r, flat[flatIndex + 1].titre)
                ELSE /\ DocOf(r) = DocOf(St)
                     /\ r.undoStack = undoStack
                     /\ r.redoStack = redoStack

(***************************************************************************)
(* The marks of a text run                                                 *)
(* Documents of one block that holds a text run with up to MaxMarks marks; *)
(* strike is a mark of the editor that the converter does not map.         *)
(***************************************************************************)
MaxMarks == 2

MarkValues ==
    {[type |-> "bold"], [type |-> "italic"], [type |-> "underline"],
     [type |-> "link", attrs |-> [href |-> <<"u">>]], [type |-> "strike"]}

MarkLists == UNION {[1..n -> MarkValues] : n \in 0..MaxMarks}

\* a text run with the marks given, a run without marks when there is none
Run(marks) == IF marks = <<>> THEN Text(<<"b">>) ELSE Marked(<<"b">>, marks)

ListOf(inl) ==
    [type |-> "bulletList",
     content |-> <<[type |-> "listItem", content |-> <<P(inl)>>]>>]

MarkBlocks(marks) ==
    {P(<<Run(marks)>>),
     P(<<Text(<<"a">>), HardBreak, Run(marks)>>),
     Heading(1, <<Text(<<"a">>), Run(marks), Bold(<<"c">>)>>),
     ListOf(<<Run(marks), HardBreak>>)}

InitMarks ==
    /\ Idle
    /\ tiptapDoc \in {Doc(<<block>>) :
                          block \in UNION {MarkBlocks(marks) :
                                               marks \in MarkLists}}
    /\ docParts = <<>>
    /\ splitDone = FALSE
    /\ htmlArray = <<>>
    /\ backDoc = Null
    /\ convStep = "doc"

NextMarks == ToHtmlArray

SpecMarks == InitMarks /\ [][NextMarks]_vars

SupportedMarks == {"bold", "italic", "underline", "link"}

\* the wrapper of a mark, without what it holds
Wrapper(mark) ==
    CASE mark.type = "bold" -> [tag |-> "strong"]
      [] mark.type = "italic" -> [tag |-> "em"]
      [] mark.type = "underline" ->
            [tag |-> "span",
             attrs |-> [style |-> "text-decoration: underline"]]
      [] mark.type = "link" ->
            [tag |-> "a", attrs |-> [href |-> mark.attrs.href]]

\* the chain of the first k marks around the text: the first mark holds
\* the text, every later mark holds the chain before it as its only child
RECURSIVE Chain(_, _, _)
Chain(marks, text, k) ==
    IF k = 1 THEN Wrapper(marks[1]) @@ [text |-> text]
    ELSE Wrapper(marks[k]) @@ [children |-> <<Chain(marks, text, k - 1)>>]

\* C35: in a paragraph or heading that has formatting, a text run whose
\* marks m1..mk (k >= 1) are all supported becomes a chain of k nested
\* single-child wrappers (strong, em, span with the underline style, a with
\* href), mk outermost, the innermost wrapper holding the text.
C35_MarkNesting ==
    convStep = "html" =>
        LET block == tiptapDoc.content[1]
        IN  (block.type \in {"paragraph", "heading"}
             /\ HasFormatting(block.content)) =>
                \A i \in 1..Len(block.content) :
                    LET node == block.content[i]
                    IN  (/\ node.type = "text"
                         /\ HasMarks(node)
                         /\ \A m \in 1..Len(node.marks) :
                                node.marks[m].type \in SupportedMarks)
                        => htmlArray[1].children[i] =
                               Chain(node.marks, node.text, Len(node.marks))

\* an element is a plain string, or has a tag and exactly one of text and
\* children (neither for img and br), its children well formed too
RECURSIVE WellFormed(_)
WellFormed(element) ==
    IF "str" \in DOMAIN element THEN TRUE
    ELSE /\ "tag" \in DOMAIN element
         /\ IF element.tag \in {"img", "br"}
            THEN "text" \notin DOMAIN element
                 /\ "children" \notin DOMAIN element
            ELSE ("text" \in DOMAIN element) # ("children" \in DOMAIN element)
         /\ "children" \in DOMAIN element =>
                \A i \in 1..Len(element.children) :
                    WellFormed(element.children[i])

\* C36: whatever marks the text runs carry, every element that
\* tiptapToHtmlArray emits, at every depth, is a plain string or an object
\* with a tag that carries exactly one of text and children, img and br
\* carrying neither.
C36_WellFormedOutput ==
    convStep = "html" =>
        \A i \in 1..Len(htmlArray) : WellFormed(htmlArray[i])

(***************************************************************************)
(* Image references (converters.js, images.js)                             *)
(* A src is a sequence of pieces: "data:", the content type, ";base64,"    *)
(* and the payload for a data URL, "ressources/" and the file name for a   *)
(* reference, one piece for any other address.                             *)
(***************************************************************************)
DataUrl(imageData) ==
    <<"data:", imageData.contentType, ";base64,", imageData.base64>>

RessourcePath(filename) == <<"ressources/", filename>>

\* src.startsWith('data:'), imgSrc.startsWith('ressources/')
StartsWith(src, prefix) == Len(src) > 0 /\ src[1] = prefix

getImage(store, idUrba, filename) ==
    getItem(store, <<IMAGE_PREFIX, idUrba, filename>>)

getImageDataUrl(store, idUrba, filename) ==
    LET imageData == getImage(store, idUrba, filename)
    IN  IF imageData = Null THEN Null ELSE DataUrl(imageData)

\* the orders in which localStorage.key(i) can enumerate the keys: the
\* order is left to the browser
KeyOrders(store) ==
    {order \in [1..Cardinality(store) -> Keys(store)] :
        \A i, j \in 1..Cardinality(store) : order[i] = order[j] => i = j}

listPluImages(store, idUrba, keyOrder) ==
    LET keys == SelectSeq(keyOrder,
                          LAMBDA k : k[1] = IMAGE_PREFIX /\ k[2] = idUrba)
    IN  [i \in 1..Len(keys) |-> getItem(store, keys[i])]

\* a converter that never finds the stored image
convertDataUrlNoMatch(s, store, keyOrder, dataUrl) == Null

\* the file name of the first stored image with this data URL, Null for null
convertDataUrlToRessourcePath(s, store, keyOrder, dataUrl) ==
    IF s.pluData = Null THEN Null
    ELSE LET images == listPluImages(store, s.pluData.idUrba, keyOrder)
             hits == {i \in 1..Len(images) : DataUrl(images[i]) = dataUrl}
         IN  IF hits = {} THEN Null
             ELSE images[CHOOSE i \in hits : \A j \in hits : i <= j].filename

\* case 'image' of convertTipTapNode
convertImageNode(s, store, keyOrder, node) ==
    LET src == node.attrs.src
        filename == IF StartsWith(src, "data:")
                    THEN convertDataUrlToRessourcePath(s, store, keyOrder, src)
                    ELSE Null
    IN  [tag |-> "img",
         attrs |-> [src |-> IF filename # Null THEN RessourcePath(filename)
                            ELSE src,
                    alt |-> node.attrs.alt]]

\* case 'img' of convertHtmlToTipTap
convertHtmlImage(s, store, element) ==
    LET imgSrc == element.attrs.src
        dataUrl == IF StartsWith(imgSrc, "ressources/") /\ s.pluData # Null
                   THEN getImageDataUrl(store, s.pluData.idUrba, imgSrc[2])
                   ELSE Null
    IN  [type |-> "image",
         attrs |-> [src |-> IF dataUrl # Null THEN dataUrl ELSE imgSrc,
                    alt |-> element.attrs.alt]]

Img(src) == [tag |-> "img", attrs |-> [src |-> src, alt |-> <<"Image">>]]
ImageNode(src) ==
    [type |-> "image", attrs |-> [src |-> src, alt |-> <<"Image">>]]

\* the images stored for the document that is loaded
StoredImages ==
    IF pluData = Null THEN {}
    ELSE {item.value : item \in {i \in localStorage :
                                     /\ i.key[1] = IMAGE_PREFIX
                                     /\ i.key[2] = pluData.idUrba}}

\* data URLs and file names, stored for this document, for another one or
\* not at all
SomeDataUrls ==
    {DataUrl(item.value) : item \in localStorage}
    \cup {DataUrl([contentType |-> "image/png", base64 |-> <<"z">>])}

SomeNames ==
    {item.value.filename : item \in localStorage}
    \cup {<<"image_9.png">>}

\* tiptapToHtmlArray rewrites a data src that equals the data URL of a
\* stored image to the reference to a stored image with that data URL, and
\* leaves any other src as it is
RewritesDataUrls ==
    \A keyOrder \in KeyOrders(localStorage) :
        \A src \in SomeDataUrls \cup {<<"http://e/i.png">>} :
            LET out == convertImageNode(St, localStorage, keyOrder,
                                        ImageNode(src)).attrs.src
            IN  IF \E image \in StoredImages : DataUrl(image) = src
                THEN \E image \in StoredImages :
                        /\ DataUrl(image) = src
                        /\ out = RessourcePath(image.filename)
                ELSE out = src

\* htmlArrayToTipTap rewrites the reference to a stored image to its data
\* URL and passes an unknown name through
RewritesReferences ==
    \A name \in SomeNames :
        LET out == convertHtmlImage(St, localStorage,
                                    Img(RessourcePath(name))).attrs.src
        IN  IF \E image \in StoredImages : image.filename = name
            THEN \E image \in StoredImages :
                    image.filename = name /\ out = DataUrl(image)
            ELSE out = RessourcePath(name)

\* the src after an img with the reference to name went to the rich form
\* and back
RoundTrip(name, keyOrder) ==
    convertImageNode(St, localStorage, keyOrder,
        convertHtmlImage(St, localStorage, Img(RessourcePath(name)))
    ).attrs.src

C38_ExportedContentIds ==
    pluData # Null =>
        \A i \in DOMAIN St.titres :
            ContiguousIds(exportPLU(St).json.titres[i].contenu)


(***************************************************************************)
(* The renumbering of saveContent, run on its own                          *)
(***************************************************************************)
MaxList == 3  \* length of the content list that is renumbered

RenumberReglement == <<(<<"R">>)>>

\* the idTitre of the selected Titre
RenumberTitres ==
    {Append(RenumberReglement, <<"a", "_", "1">>),
     Append(RenumberReglement, <<"b", "_", "1">>)}

\* the ids a content of the list may carry before the renumbering: any
\* number, of the selected Titre or of another one
IdPool ==
    {ContenuId(ContenuBase(RenumberReglement, t), n) :
        t \in RenumberTitres, n \in 0..MaxList + 1}

ContentLists ==
    UNION {[1..n -> {[BlankContenu EXCEPT !.idContenu = id] : id \in IdPool}] :
              n \in 0..MaxList}

\* tiptapDoc holds the idTitre of the selected Titre, docParts its content
\* list, htmlArray the list after one renumbering, backDoc after two
InitRenumber ==
    /\ Idle
    /\ tiptapDoc \in RenumberTitres
    /\ docParts \in ContentLists
    /\ splitDone = FALSE
    /\ htmlArray = <<>>
    /\ backDoc = <<>>
    /\ convStep = "list"

RenumberBase == ContenuBase(RenumberReglement, tiptapDoc)

RenumberOnce ==
    /\ convStep = "list"
    /\ htmlArray' = Renumber(docParts, RenumberBase)
    /\ convStep' = "once"
    /\ UNCHANGED <<tiptapDoc, docParts, splitDone, backDoc, localStorage,
                   refs>>
    /\ UNCHANGED editorVars

RenumberAgain ==
    /\ convStep = "once"
    /\ backDoc' = Renumber(htmlArray, RenumberBase)
    /\ convStep' = "twice"
    /\ UNCHANGED <<tiptapDoc, docParts, splitDone, htmlArray, localStorage,
                   refs>>
    /\ UNCHANGED editorVars

NextRenumber == RenumberOnce \/ RenumberAgain

SpecRenumber == InitRenumber /\ [][NextRenumber]_vars

IdsOf(contenus) == [i \in 1..Len(contenus) |-> contenus[i].idContenu]

\* the ids are <base>/contenu01 ... <base>/contenuNN for the base of the
\* selected Titre
ContiguousFor(contenus, baseId) ==
    /\ ContiguousIds(contenus)
    /\ \A i \in 1..Len(contenus) : Front(contenus[i].idContenu) = baseId

\* C39: the renumbering of saveContent leaves the ids of a list whose ids
\* are already contenu01 ... contenuNN (under the base of the selected
\* Titre) as they are, and on any list a second run gives the ids of the
\* first run.
C39_RenumberIdempotent ==
    /\ (convStep # "list" /\ ContiguousFor(docParts, RenumberBase)) =>
           IdsOf(htmlArray) = IdsOf(docParts)
    /\ convStep = "twice" => IdsOf(backDoc) = IdsOf(htmlArray)

\* a full list with a repeated id was renumbered twice: the first run
\* changed its ids, the second ran on a contiguous list
C39_Witness ==
    /\ convStep = "twice"
    /\ Len(docParts) = MaxList
    /\ docParts[1].idContenu = docParts[2].idContenu
    /\ IdsOf(htmlArray) # IdsOf(docParts)
    /\ ContiguousFor(htmlArray, RenumberBase)


(***************************************************************************)
(* ui.js: the expanded nodes and the items of the tree                     *)
(***************************************************************************)
MaxDepth == 3  \* depth of the title chain of the file DeepFile

\* a JSON file with the chain of titles T1 > T2 > ... > T<MaxDepth>
DeepId(n) == [k \in 1..(n + Len(FileId)) |->
                 IF k <= Len(FileId) THEN FileId[k]
                 ELSE <<"t", "_", Digit(k - Len(FileId))>>]
DeepFile ==
    [pluData |-> [FileData.pluData EXCEPT !.titre = <<1>>],
     titres |-> [n \in 1..MaxDepth |->
                    FileTitre(<<"T", Digit(n)>>, n, DeepId(n), <<>>,
                              IF n < MaxDepth THEN <<n + 1>> ELSE <<>>)]]
ExpandFiles == {DeepFile, FileData}

\* flatTitles.find(ft => ft.path equals parentPath): the Titre of the
\* entry, 0 when there is none
FindPath(flat, parentPath) ==
    LET hits == {k \in 1..Len(flat) : flat[k].path = parentPath}
    IN  IF hits = {} THEN 0
        ELSE flat[CHOOSE k \in hits : \A h \in hits : k <= h].titre

\* renderTree: the item of the entry k is appended to #tree unless the
\* entry of its parent path is not expanded
Rendered(s, flat, expandedNodes, k) ==
    Len(flat[k].path) > 1 =>
        LET parentItem == FindPath(flat, Front(flat[k].path))
        IN  ~(parentItem # 0
              /\ s.titres[parentItem].idTitre \notin expandedNodes)

\* the items renderTree appends to #tree: data-index, data-titre-id and the
\* state of the expand button
TreeItems(s, expandedNodes) ==
    IF s.pluData = Null \/ Len(s.pluData.titre) = 0 THEN <<>>
    ELSE
    LET flat == FlatOf(s)
        item(k) ==
            LET titre == s.titres[flat[k].titre]
            IN  [index |-> k - 1,
                 titreId |-> titre.idTitre,
                 button |-> IF Len(titre.titre) = 0 THEN "none"
                            ELSE IF titre.idTitre \in expandedNodes
                            THEN "expanded" ELSE "collapsed"]
    IN  [j \in 1..Cardinality({k \in 1..Len(flat) :
                                  Rendered(s, flat, expandedNodes, k)}) |->
            item(CHOOSE k \in 1..Len(flat) :
                    /\ Rendered(s, flat, expandedNodes, k)
                    /\ Cardinality({h \in 1..k :
                           Rendered(s, flat, expandedNodes, h)}) = j)]

\* the session, the expanded nodes and the tree after toggleNodeExpand
toggleNodeExpand(s, expandedNodes, titreId) ==
    LET toggled == IF titreId \in expandedNodes
                   THEN expandedNodes \ {titreId}
                   ELSE expandedNodes \cup {titreId}
    IN  [s |-> renderTree(s), expandedNodes |-> toggled,
         tree |-> TreeItems(s, toggled)]

\* expandParentsOfNode: the ids of the entries on the path to flatIndex
expandParentsOfNode(s, expandedNodes, flatIndex) ==
    IF flatIndex + 1 \notin 1..Len(s.flatTitles) THEN expandedNodes
    ELSE
    LET path == s.flatTitles[flatIndex + 1].path
        parents == {FindPath(s.flatTitles, SubSeq(path, 1, i)) :
                       i \in 1..(Len(path) - 1)}
    IN  expandedNodes
        \cup {s.titres[p].idTitre : p \in parents \ {0}}

\* docParts holds the set expandedNodes, htmlArray the items of #tree
InitExpand ==
    /\ Idle
    /\ tiptapDoc = Null
    /\ docParts = {}
    /\ splitDone = FALSE
    /\ htmlArray = <<>>
    /\ backDoc = Null
    /\ convStep = "tree"

ExpandFrame == UNCHANGED <<tiptapDoc, splitDone, backDoc, convStep,
                           localStorage, refs>>

\* loadPLU of a file
ExpandLoad ==
    \E data \in ExpandFiles :
        LET r == loadPLU(St, data)
        IN  /\ Bounded(r)
            /\ AssignEditor(Collect(r))
            /\ htmlArray' = TreeItems(r, docParts)
            /\ UNCHANGED docParts
            /\ ExpandFrame

\* click on the expand button of an item of the tree
ToggleExpand ==
    \E k \in 1..Len(htmlArray) :
        /\ htmlArray[k].button # "none"
        /\ LET r == toggleNodeExpand(St, docParts, htmlArray[k].titreId)
           IN  /\ AssignEditor(Collect(r.s))
               /\ docParts' = r.expandedNodes
               /\ htmlArray' = r.tree
        /\ ExpandFrame

\* click on an item of the tree: expandParentsOfNode, then selectTitre
ClickItem ==
    \E k \in 1..Len(htmlArray) :
        /\ AssignEditor(Collect(selectTitre(St, htmlArray[k].index)))
        /\ docParts' = expandParentsOfNode(St, docParts, htmlArray[k].index)
        /\ UNCHANGED htmlArray
        /\ ExpandFrame

\* click on the delete button of an item of the tree
ExpandDelete ==
    \E k \in 1..Len(htmlArray), confirmed \in BOOLEAN :
        LET r == deleteTitre(St, htmlArray[k].index, confirmed)
        IN  /\ Bounded(r)
            /\ AssignEditor(Collect(r))
            /\ htmlArray' = IF confirmed /\ r.toast = "success"
                            THEN TreeItems(r, docParts) ELSE htmlArray
            /\ UNCHANGED docParts
            /\ ExpandFrame

ExpandUndo ==
    LET r == undo(St)
    IN  /\ AssignEditor(Collect(r))
        /\ htmlArray' = IF Len(undoStack) > 0 THEN TreeItems(r, docParts)
                        ELSE htmlArray
        /\ UNCHANGED docParts
        /\ ExpandFrame

NextExpand ==
    ExpandLoad \/ ToggleExpand \/ ClickItem \/ ExpandDelete \/ ExpandUndo

SpecExpand == InitExpand /\ [][NextExpand]_vars

\* the results of a click on an expand button of the tree
ToggleResults ==
    {toggleNodeExpand(St, docParts, htmlArray[k].titreId) :
        k \in {h \in 1..Len(htmlArray) : htmlArray[h].button # "none"}}

\* the idTitre of the Titres above the entry k of the flat list
AncestorIds(s, flat, k) ==
    {s.titres[FindPath(flat, SubSeq(flat[k].path, 1, i))].idTitre :
        i \in 1..(Len(flat[k].path) - 1)}

TogglePresentationOnly ==
    \A r \in ToggleResults :
        /\ DocOf(r.s) = DocOf(St)
        /\ r.s.undoStack = undoStack
        /\ r.s.redoStack = redoStack

ToggleTwiceRestores ==
    \A k \in 1..Len(htmlArray) :
        htmlArray[k].button # "none" =>
            LET once == toggleNodeExpand(St, docParts, htmlArray[k].titreId)
                twice == toggleNodeExpand(once.s, once.expandedNodes,
                                          htmlArray[k].titreId)
            IN  twice.expandedNodes = docParts /\ twice.tree = htmlArray

AncestorsExpanded ==
    \A r \in ToggleResults :
        \A j \in 1..Len(r.tree) :
            AncestorIds(r.s, FlatOf(r.s), r.tree[j].index + 1)
                \subseteq r.expandedNodes

\* C40: a click on an expand button changes neither the document nor the
\* history stacks, a second click on the same button gives back the
\* expanded set and the tree of before, and after the click every item of
\* the tree has all the Titres above it in the expanded set.
C40_CollapseHidesSubtree ==
    /\ TogglePresentationOnly
    /\ ToggleTwiceRestores
    /\ AncestorsExpanded

=============================================================================
